---- MODULE Spec2Model ----
(***************************************************************************)
(* Control plane of the ToRC DNS scheduler: the State Actor (state.rs,     *)
(* task_list.rs, node_list.rs), the offer-matching scheduler               *)
(* (scheduler_impl.rs), the health supervisor (run_health_checker.rs), the *)
(* HTTP admin handlers (run_api.rs) and the registry sync loop.            *)
(*                                                                         *)
(* Every client call on the StateManager is a message appended to the      *)
(* actor's inbox followed by a blocking receive on the call's own reply    *)
(* channel.  ActorSpec keeps the inbox and the reply channels explicit and *)
(* drives the actor with concurrent callers of the public interface.  In   *)
(* Spec, the whole process, a call takes effect at the point where the     *)
(* actor dispatches it (the caller is blocked from send to recv, and the   *)
(* actor handles one request at a time): a client step consumes the reply  *)
(* of its previous call, runs the thread-local code that follows and makes *)
(* the next call.  OffersSpec is the same process while no admin request   *)
(* arrives and the sync loop sleeps, with more driver traffic.  LiveSpec   *)
(* is the process running without bound, its threads weakly fair, under a  *)
(* driver that keeps offering one slave and an admin that keeps starting   *)
(* service groups.  RaceSpec is the process while the admin starts a group *)
(* that declares a service under the name of a system service.             *)
(* StatusSpec is the process under two status updates of any kind and     *)
(* agents whose attributes differ from the configured or earlier ones.     *)
(* GroupSpec is the admin starting groups next to the health loop, and     *)
(* ExpandSpec the startup of the health supervisor over configurations.    *)
(* ActorFairSpec is ActorSpec with a serving actor and returning receives. *)
(*                                                                         *)
(* f64 quantities (cpu, memory) are small naturals; strings that the code  *)
(* inspects by prefix (container ids) or rewrites by token (arguments)     *)
(* are sequences.  Task fields that no transition reads (image,            *)
(* parameters, volumes, privileged, is_metered, is_job, network_type,      *)
(* controller, last_update) are carried by the descriptor name only.       *)
(***************************************************************************)
EXTENDS Integers, Sequences, FiniteSets, TLC

\* ------------------------------------------------------------------------
\* Bounds of the exploration
\* ------------------------------------------------------------------------
\* Spec, the whole process:
MaxOffers == 1       \* offers in one batch
MaxBatches == 1      \* offers callbacks delivered by the driver
MaxUpdates == 1      \* status updates delivered by the driver
MaxApi == 1          \* admin requests handled
MaxTicks == 1        \* health supervisor ticks
MaxSyncs == 1        \* registry sync ticks
\* OffersSpec, the process without admin requests and registry syncs:
MaxOfferBatches == 2
MaxBatchOffers == 2
MaxOfferUpdates == 1
MaxOfferTicks == 1
\* ActorSpec:
MaxCalls == 4        \* calls made by the callers

\* a budget that is never used up: the loop or the input has no bound
Forever == -1

Spend(b) == IF b = Forever THEN b ELSE b - 1

\* LiveSpec, the process running without bound:
MaxLiveUpdates == 2  \* status updates delivered by the driver
\* StatusSpec, the process under several status updates:
MaxStatusBatches == 2
MaxStatusUpdates == 2
MaxStatusTicks == 1
\* RaceSpec, the admin starting a system service next to the health loop:
MaxRaceBatches == 1
MaxRaceUpdates == 1
MaxRaceApi == 1
MaxRaceTicks == 1
\* GroupSpec, the admin starting groups next to the health loop:
MaxGroupApi == 2
MaxGroupTicks == 1
\* ExpandSpec, the expansion of the system services:
MaxServices == 2  \* system services declared

\* ------------------------------------------------------------------------
\* Configuration document and command line (inputs of the process)
\* ------------------------------------------------------------------------
MasterIp == "10.0.0.9"

ConfigNodes ==
  << [name |-> "n1", ip |-> "10.0.0.1", external_ip |-> "1.1.1.1",
      management_ip |-> "172.0.0.1", node_type |-> "slave"],
     [name |-> "n2", ip |-> "10.0.0.2", external_ip |-> "1.1.1.2",
      management_ip |-> "172.0.0.2", node_type |-> "master"] >>

\* utils/config.rs Task, as produced by read_task
Descriptor(name, node_name, node_type, node_function, n, dep, args, mem, cpu, sla) ==
  [name |-> name, node_name |-> node_name, node_type |-> node_type,
   node_function |-> node_function, number_of_instances |-> n,
   dependent_service |-> dep, arguments |-> args, memory |-> mem, cpu |-> cpu,
   sla |-> sla, is_metered |-> FALSE, is_job |-> FALSE]

SystemServices ==
  << Descriptor("dns-sl1", "", "", "", 1, "", <<"-m", "$MASTER_IP">>, 1, 1, "None"),
     Descriptor("mon", "", "", "dns", 1, "dns-sl1", <<"$IP_DNS_SL1">>, 1, 1,
                "SingletonEachSlave") >>

\* the document is not validated: the group "sys" declares a service under
\* the name of a system service
ServiceGroups ==
  << [name |-> "dns",
      services |-> << Descriptor("dns-sl2", "", "slave", "", 1, "dns-sl1",
                                 <<"-f", "$IP_DNS_SL1">>, 1, 2, "None") >>],
     [name |-> "sys", services |-> << SystemServices[1] >>],
     [name |-> "web",
      services |-> << Descriptor("web", "", "", "", 2, "", <<"-p", "80">>, 1, 1, "None"),
                      Descriptor("lb", "", "", "", 1, "", <<"-p", "443">>, 1, 1, "None") >>] >>

GroupNames == {"dns", "nogroup"}

TaskNames == {"dns-sl1", "dns-sl2", "mon-n1"}

TaskStates == {"NotRunning", "Requested", "Accepted", "Running"}

Threads == {"main", "api", "sched", "health", "sync"}

Callers == {"c1", "c2"}

Clients == Threads \cup Callers

\* ------------------------------------------------------------------------
\* Helpers
\* ------------------------------------------------------------------------
Range(s) == {s[k] : k \in 1..Len(s)}

RECURSIVE Perms(_)
Perms(S) ==
  IF S = {} THEN {<<>>}
  ELSE UNION {{<<x>> \o p : p \in Perms(S \ {x})} : x \in S}

StartsWith(s, p) == Len(p) <= Len(s) /\ SubSeq(s, 1, Len(p)) = p

\* ------------------------------------------------------------------------
\* TaskList (task_list.rs): HashMap<String, Task>, here the set of its
\* values; the key of an entry is its name.
\* ------------------------------------------------------------------------
Has(tl, name) == \E t \in tl : t.name = name

Entry(tl, name) == CHOOSE t \in tl : t.name = name

\* faulty variant (sensitivity of C4): an insert that keeps the old entry
add_new_task_keeping(tl, task) == tl \cup {task}

add_new_task(tl, task) == {t \in tl : t.name # task.name} \cup {task}

\* faulty variant (sensitivity of C7): a removal that removes nothing
remove_task_ignored(tl, task_name) == tl

\* faulty variant (sensitivity of C21): the removal empties the table
remove_task_clearing(tl, task_name) == {}

remove_task_by_name(tl, task_name) == {t \in tl : t.name # task_name}

\* faulty variant (sensitivity of C6): a state update that is dropped
set_task_state_ignored(tl, task_name, task_state) == tl

set_task_state(tl, task_name, task_state) ==
  {IF t.name = task_name THEN [t EXCEPT !.state = task_state] ELSE t : t \in tl}

set_task_node_name(tl, task_name, node_name) ==
  {IF t.name = task_name THEN [t EXCEPT !.node_name = node_name] ELSE t : t \in tl}

\* faulty variant (sensitivity of C31): empty arguments are stored too
set_task_info_overwriting(tl, task_name, task_id, task_ip, slave_id) ==
  {IF t.name = task_name
     THEN [t EXCEPT !.id = task_id, !.ip = task_ip, !.slave_id = slave_id]
     ELSE t : t \in tl}

set_task_info(tl, task_name, task_id, task_ip, slave_id) ==
  {IF t.name = task_name
     THEN [t EXCEPT !.id = IF Len(task_id) > 0 THEN task_id ELSE @,
                    !.ip = IF task_ip # "" THEN task_ip ELSE @,
                    !.slave_id = IF slave_id # "" THEN slave_id ELSE @]
     ELSE t : t \in tl}

get_task_state(tl, task_name) ==
  IF Has(tl, task_name) THEN Entry(tl, task_name).state ELSE "NotRunning"

\* faulty variant (sensitivity of C30): entries without an id are not
\* filtered out
get_task_name_by_id_unfiltered(tl, id_prefix) ==
  LET hits == {t \in tl : StartsWith(t.id, id_prefix)}
  IN  IF hits = {} THEN {""} ELSE {t.name : t \in hits}

\* the iteration order of the map is unspecified: every first hit is possible
get_task_name_by_id(tl, id_prefix) ==
  LET hits == {t \in tl : Len(t.id) > 0 /\ StartsWith(t.id, id_prefix)}
  IN  IF hits = {} THEN {""} ELSE {t.name : t \in hits}

get_task_ip_by_name(tl, name) ==
  IF Has(tl, name) THEN Entry(tl, name).ip ELSE ""

get_tasks_with_state(tl, task_state) == {t \in tl : t.state = task_state}

\* ------------------------------------------------------------------------
\* NodeList (node_list.rs)
\* ------------------------------------------------------------------------
add_new_node(nl, node) == {n \in nl : n.name # node.name} \cup {node}

is_node_active(nl, node_name) ==
  IF Has(nl, node_name) THEN Entry(nl, node_name).active ELSE FALSE

\* faulty variant (sensitivity of C26): the fields are updated, the node is
\* not activated
update_node_inactive(nl, node_name, node_type, node_function, slave_id) ==
  {IF n.name = node_name
     THEN [n EXCEPT !.node_type = node_type, !.node_function = node_function,
                    !.slave_id = slave_id]
     ELSE n : n \in nl}

\* faulty variant (sensitivity of C38): an unknown node is added
update_node_adding(nl, node_name, node_type, node_function, slave_id) ==
  {n \in nl : n.name # node_name}
  \cup {[name |-> node_name, ip |-> "", external_ip |-> "", management_ip |-> "",
          node_type |-> node_type, node_function |-> node_function,
          active |-> TRUE, slave_id |-> slave_id]}

update_node(nl, node_name, node_type, node_function, slave_id) ==
  {IF n.name = node_name
     THEN [n EXCEPT !.node_type = node_type, !.node_function = node_function,
                    !.slave_id = slave_id, !.active = TRUE]
     ELSE n : n \in nl}

\* ------------------------------------------------------------------------
\* State
\* ------------------------------------------------------------------------
VARIABLES
  task_list,   \* State.task_list
  node_list,   \* State.node_list
  actor,       \* the state-serve thread: "serving" or "panicked"
  inbox,       \* the actor's mpsc channel: requests not yet received
  chan,        \* chan[c]: the reply channel of client c's latest call
  pc,          \* pc[c]: where client thread c stands
  pushes,      \* pushes[n]: registry pushes made by the actor for task n
  mesos,       \* the MESOS slot of collaborator/mesos/client.rs
  calls,       \* cluster calls made by the scheduler callback in progress
  sched,       \* locals of the scheduler callback in progress
  api,         \* locals of the admin handler in progress
  health,      \* locals of the health supervisor
  main,        \* locals of StateManager::new (load_node_list)
  seen,        \* per task name: the requests served on it (history, ActorSpec)
  budget       \* events the environment may still deliver, per kind, and its inputs

vars == <<task_list, node_list, actor, inbox, chan, pc, pushes, mesos, calls,
          sched, api, health, main, seen, budget>>

\* ------------------------------------------------------------------------
\* The State Actor: the handlers StateManager::start_serving dispatches to
\* (state.rs 607-756).  Each yields the outcomes of handling request m in
\* the current state: the tables, the registry pushes, the reply sent (none
\* when the thread panics before sender.send).
\* ------------------------------------------------------------------------
\* collaborator::register_running_task: POST of the task to the registry;
\* a failed POST is logged and swallowed
register_running_task(p, task) == [p EXCEPT ![task.name] = @ + 1]

Done(tl, nl, p, reply) ==
  [task_list |-> tl, node_list |-> nl, pushes |-> p, actor |-> "serving",
   reply |-> <<reply>>]

Panicked ==
  [task_list |-> task_list, node_list |-> node_list, pushes |-> pushes,
   actor |-> "panicked", reply |-> <<>>]

Answer(reply) == {Done(task_list, node_list, pushes, reply)}

ping(m) == Answer([type |-> "Pong"])

HandleGetTaskState(m) ==
  Answer([type |-> "TasksState",
          tasks_state |-> get_task_state(task_list, m.task_name)])

HandleGetTaskNameById(m) ==
  {Done(task_list, node_list, pushes, [type |-> "TaskName", task_name |-> n]) :
     n \in get_task_name_by_id(task_list, m.id_prefix)}

HandleGetTaskIPByName(m) ==
  Answer([type |-> "TaskIP", task_ip |-> get_task_ip_by_name(task_list, m.name)])

\* faulty variant (sensitivity of C40): a Running update is pushed to the
\* registry whether or not the task table holds the name
update_task_state_pushing(m) ==
  LET tl == set_task_state(task_list, m.task_name, m.task_state)
      p == IF m.task_state = "Running"
             THEN [pushes EXCEPT ![m.task_name] = @ + 1]
             ELSE pushes
  IN  {Done(tl, node_list, p, [type |-> "UpdateTaskState"])}

update_task_state(m) ==
  LET tl == set_task_state(task_list, m.task_name, m.task_state)
      p == IF m.task_state = "Running" /\ Has(tl, m.task_name)
             THEN register_running_task(pushes, Entry(tl, m.task_name))
             ELSE pushes
  IN  {Done(tl, node_list, p, [type |-> "UpdateTaskState"])}

update_task_node_name(m) ==
  {Done(set_task_node_name(task_list, m.task_name, m.node_name), node_list, pushes,
        [type |-> "UpdateTaskNodeName"])}

update_task_info(m) ==
  {Done(set_task_info(task_list, m.task_name, m.id, m.ip, m.slave_id), node_list,
        pushes, [type |-> "UpdateTaskInfo"])}

\* faulty variant (sensitivity of C5): StartTask acknowledged, nothing stored
start_task_ignored(m) == Answer([type |-> "StartTask"])

start_task(m) ==
  {Done(add_new_task(task_list, m.task), node_list, pushes, [type |-> "StartTask"])}

\* faulty variant (sensitivity of C3): the entry is kept and marked NotRunning
MarkNotRunning(m) ==
  {Done(set_task_state(task_list, m.task_name, "NotRunning"), node_list, pushes,
        [type |-> "RemoveTask"])}

HandleRemoveTask(m) ==
  {Done(remove_task_by_name(task_list, m.task_name), node_list, pushes,
        [type |-> "RemoveTask"])}

\* the Vec is filled in the map's iteration order, which is unspecified
get_requested_tasks(m) ==
  {Done(task_list, node_list, pushes,
        [type |-> "GetRequestedTasks", requested_tasks |-> result]) :
     result \in Perms(get_tasks_with_state(task_list, "Requested"))}

get_running_tasks(m) ==
  {Done(task_list, node_list, pushes,
        [type |-> "GetRunningTasks", running_tasks |-> result]) :
     result \in Perms(get_tasks_with_state(task_list, "Running"))}

add_node(m) ==
  {Done(task_list, add_new_node(node_list, m.node), pushes, [type |-> "AddNode"])}

get_is_node_active(m) ==
  Answer([type |-> "GetIsNodeActive",
          is_active |-> is_node_active(node_list, m.node_name)])

HandleUpdateNode(m) ==
  {Done(task_list,
        update_node(node_list, m.node_name, m.node_type, m.node_function, m.slave_id),
        pushes, [type |-> "UpdateNode"])}

\* state.rs 746-750: node_list.get_node(..).unwrap() panics the state-serve
\* thread when the name is unknown
get_node(m) ==
  IF Has(node_list, m.node_name)
    THEN Answer([type |-> "GetNode", node |-> Entry(node_list, m.node_name)])
    ELSE {Panicked}

get_nodes(m) ==
  {Done(task_list, node_list, pushes, [type |-> "GetNodes", nodes |-> result]) :
     result \in Perms(node_list)}

\* the match of start_serving (state.rs 528-568)
Dispatch(m) ==
  CASE m.op = "Ping" -> ping(m)
    [] m.op = "GetTaskState" -> HandleGetTaskState(m)
    [] m.op = "GetTaskNameById" -> HandleGetTaskNameById(m)
    [] m.op = "GetTaskIPByName" -> HandleGetTaskIPByName(m)
    [] m.op = "UpdateTaskState" -> update_task_state(m)
    [] m.op = "UpdateTaskNodeName" -> update_task_node_name(m)
    [] m.op = "UpdateTaskInfo" -> update_task_info(m)
    [] m.op = "StartTask" -> start_task(m)
    [] m.op = "RemoveTask" -> HandleRemoveTask(m)
    [] m.op = "GetRequestedTasks" -> get_requested_tasks(m)
    [] m.op = "GetRunningTasks" -> get_running_tasks(m)
    [] m.op = "AddNode" -> add_node(m)
    [] m.op = "GetIsNodeActive" -> get_is_node_active(m)
    [] m.op = "UpdateNode" -> HandleUpdateNode(m)
    [] m.op = "GetNode" -> get_node(m)
    [] m.op = "GetNodes" -> get_nodes(m)

Apply(o) ==
  /\ task_list' = o.task_list
  /\ node_list' = o.node_list
  /\ pushes' = o.pushes
  /\ actor' = o.actor

\* ------------------------------------------------------------------------
\* Calls of the threads of the process: StateManager::send_* / request_*
\* (state.rs 94-383).  self.sender.send(msg).unwrap() panics the caller
\* once the actor's receiver is gone, and so does receiver.recv().unwrap()
\* when the actor drops the request without a reply.
\* ------------------------------------------------------------------------
Call(c, m, label) ==
  IF actor = "serving"
    THEN \E o \in Dispatch(m) :
           /\ Apply(o)
           /\ chan' = [chan EXCEPT ![c] = o.reply]
           /\ pc' = [pc EXCEPT ![c] = IF o.actor = "serving" THEN label ELSE "panicked"]
    ELSE /\ UNCHANGED <<task_list, node_list, pushes, actor>>
         /\ chan' = [chan EXCEPT ![c] = <<>>]
         /\ pc' = [pc EXCEPT ![c] = "panicked"]

\* no further call in this step
Goto(c, label) ==
  /\ UNCHANGED <<task_list, node_list, pushes, actor>>
  /\ chan' = [chan EXCEPT ![c] = <<>>]
  /\ pc' = [pc EXCEPT ![c] = label]

\* the reply of c's call is there
Got(c, label) == pc[c] = label

\* ------------------------------------------------------------------------
\* StateManager::send_start_task and resolve_arguments (state.rs 191-247,
\* 701-718), shared by the admin handler and the health supervisor
\* ------------------------------------------------------------------------
Replace(arguments, from, to) ==
  [k \in 1..Len(arguments) |-> IF arguments[k] = from THEN to ELSE arguments[k]]

\* state.rs 702-708: is the actor asked for the IP of dns-sl1?
AsksIp(arguments) ==
  Len(arguments) # 0 /\ "$IP_DNS_SL1" \in Range(Replace(arguments, "$MASTER_IP", MasterIp))

resolve_arguments(arguments, task_ip) ==
  IF Len(arguments) = 0 THEN arguments
  ELSE Replace(Replace(arguments, "$MASTER_IP", MasterIp), "$IP_DNS_SL1", task_ip)

NewTask(name, d, resolved_arguments, is_system_service) ==
  [name |-> name, id |-> <<>>, node_name |-> d.node_name, node_type |-> d.node_type,
   node_function |-> d.node_function, dependent_service |-> d.dependent_service,
   arguments |-> resolved_arguments, memory |-> d.memory, cpu |-> d.cpu,
   sla |-> d.sla, is_metered |-> d.is_metered,
   is_system_service |-> is_system_service, is_job |-> d.is_job,
   ip |-> "", slave_id |-> "", state |-> "Requested"]

StartTaskMsg(c, d, task_ip, is_system_service) ==
  [op |-> "StartTask", sender |-> c,
   task |-> NewTask(d.name, d, resolve_arguments(d.arguments, task_ip), is_system_service)]

\* first request of send_start_task for descriptor d
BeginStartTask(c, d, is_system_service) ==
  IF AsksIp(d.arguments)
    THEN Call(c, [op |-> "GetTaskIPByName", sender |-> c, name |-> "dns-sl1"], "w_ip")
    ELSE Call(c, StartTaskMsg(c, d, "", is_system_service), "w_start")

\* ------------------------------------------------------------------------
\* StateManager::new: load_node_list, start_syncing (state.rs 56-72, 594-605)
\* and the threads spawned by main (main.rs 73-94)
\* ------------------------------------------------------------------------
NewNode(cfg) ==
  [name |-> cfg.name, ip |-> cfg.ip, external_ip |-> cfg.external_ip,
   management_ip |-> cfg.management_ip, node_type |-> cfg.node_type,
   node_function |-> "none", active |-> FALSE, slave_id |-> ""]

AddNodeMsg(c, cfg) == [op |-> "AddNode", sender |-> c, node |-> NewNode(cfg)]

Spawned ==
  [c \in Clients |->
     CASE c = "main" -> "join"
       [] c = "sync" -> "sleep"
       [] c \in Callers -> pc[c]
       [] OTHER -> "start"]

MainLoad ==
  /\ pc["main"] = "load"
  /\ IF Len(ConfigNodes) = 0
       THEN /\ UNCHANGED <<task_list, node_list, pushes, actor, chan>>
            /\ pc' = Spawned
       ELSE Call("main", AddNodeMsg("main", ConfigNodes[1]), "w_addnode")
  /\ UNCHANGED <<inbox, mesos, calls, sched, api, health, main, seen, budget>>

MainAdded ==
  /\ Got("main", "w_addnode")
  /\ IF main.k < Len(ConfigNodes)
       THEN /\ Call("main", AddNodeMsg("main", ConfigNodes[main.k + 1]), "w_addnode")
            /\ main' = [main EXCEPT !.k = @ + 1]
       ELSE /\ UNCHANGED <<task_list, node_list, pushes, actor, chan>>
            /\ pc' = Spawned
            /\ main' = main
  /\ UNCHANGED <<inbox, mesos, calls, sched, api, health, seen, budget>>

\* ------------------------------------------------------------------------
\* Registry sync loop: StateManager::start_syncing (state.rs 574-592)
\* ------------------------------------------------------------------------
SyncTick ==
  /\ pc["sync"] = "sleep"
  /\ budget.syncs # 0
  /\ budget' = [budget EXCEPT !.syncs = Spend(@)]
  /\ Call("sync", [op |-> "GetRunningTasks", sender |-> "sync"], "w_running")
  /\ UNCHANGED <<inbox, mesos, calls, sched, api, health, main, seen>>

\* state.rs 586-588: one POST per running task, to the registry only
SyncPost ==
  /\ Got("sync", "w_running")
  /\ Goto("sync", "sleep")
  /\ UNCHANGED <<inbox, mesos, calls, sched, api, health, main, seen, budget>>

\* ------------------------------------------------------------------------
\* HTTP admin: run_api and its handlers (run_api.rs)
\* ------------------------------------------------------------------------
IdPrefixes == {<<>>, <<"c0">>}

\* group is history: the name the start request in progress carries
ApiIdle == [todo |-> <<>>, k |-> 0, kind |-> "", result |-> "", body |-> <<>>,
            killed |-> <<>>, group |-> ""]

RECURSIVE Flatten(_)
Flatten(ss) == IF ss = <<>> THEN <<>> ELSE Head(ss) \o Flatten(Tail(ss))

\* faulty variant (sensitivity of C27): the instances are numbered from 1
InstancesFromOne(task) ==
  [cnt \in 1..task.number_of_instances |->
     [task EXCEPT !.name = IF task.number_of_instances > 1
                             THEN task.name \o "-" \o ToString(cnt)
                             ELSE task.name]]

\* run_api.rs 180-184: the instances of one service
Instances(task) ==
  [cnt \in 1..task.number_of_instances |->
     [task EXCEPT !.name = IF task.number_of_instances > 1
                             THEN task.name \o "-" \o ToString(cnt - 1)
                             ELSE task.name]]

\* run_api.rs 175-206: the send_start_task calls of one request, in order
GroupTasks(name) ==
  Flatten([g \in 1..Len(ServiceGroups) |->
             IF ServiceGroups[g].name = name
               THEN Flatten([sv \in 1..Len(ServiceGroups[g].services) |->
                               Instances(ServiceGroups[g].services[sv])])
               ELSE <<>>])

ApiUnchanged == UNCHANGED <<inbox, mesos, calls, sched, health, main, seen>>

ApiStart ==
  /\ pc["api"] = "start"
  /\ Call("api", [op |-> "Ping", sender |-> "api"], "w_ping")
  /\ UNCHANGED <<api, budget>>
  /\ ApiUnchanged

ApiListening ==
  /\ Got("api", "w_ping")
  /\ Goto("api", "idle")
  /\ UNCHANGED <<api, budget>>
  /\ ApiUnchanged

ApiAccepts ==
  /\ pc["api"] = "idle"
  /\ budget.api # 0
  /\ budget' = [budget EXCEPT !.api = Spend(@)]

handle_ping ==
  /\ ApiAccepts
  /\ api' = [ApiIdle EXCEPT !.result = "pong"]
  /\ Goto("api", "respond")
  /\ ApiUnchanged

handle_nodes ==
  /\ ApiAccepts
  /\ api' = ApiIdle
  /\ Call("api", [op |-> "GetNodes", sender |-> "api"], "w_nodes")
  /\ ApiUnchanged

ApiNodes ==
  /\ Got("api", "w_nodes")
  /\ LET nodes == Head(chan["api"]).nodes
     IN  api' = [api EXCEPT !.body = SelectSeq([k \in 1..Len(nodes) |->
                                     IF nodes[k].active THEN nodes[k].name ELSE ""],
                                   LAMBDA n : n # "")]
  /\ Goto("api", "respond")
  /\ UNCHANGED budget
  /\ ApiUnchanged

\* handle_services_metered and handle_services_running
handle_services ==
  /\ ApiAccepts
  /\ \E kind \in {"metered", "running"} : api' = [ApiIdle EXCEPT !.kind = kind]
  /\ Call("api", [op |-> "GetRunningTasks", sender |-> "api"], "w_running")
  /\ ApiUnchanged

ApiServices ==
  /\ Got("api", "w_running")
  /\ LET tasks == Head(chan["api"]).running_tasks
         keep(t) == IF api.kind = "metered" THEN t.is_metered ELSE ~t.is_job
     IN  api' = [api EXCEPT !.body = SelectSeq([k \in 1..Len(tasks) |->
                                     IF keep(tasks[k]) THEN tasks[k].name ELSE ""],
                                   LAMBDA n : n # "")]
  /\ Goto("api", "respond")
  /\ UNCHANGED budget
  /\ ApiUnchanged

handle_service ==
  /\ ApiAccepts
  /\ api' = ApiIdle
  /\ \E id \in IdPrefixes :
       IF Len(id) # 0
         THEN Call("api", [op |-> "GetTaskNameById", sender |-> "api", id_prefix |-> id],
                   "w_byid")
         ELSE Goto("api", "respond")
  /\ ApiUnchanged

ApiService ==
  /\ Got("api", "w_byid")
  /\ api' = [api EXCEPT !.result = Head(chan["api"]).task_name]
  /\ Goto("api", "respond")
  /\ UNCHANGED budget
  /\ ApiUnchanged

\* collaborator/mesos/client.rs kill_task: the result of client.kill is
\* printed either way
kill_task(task_name) == IF mesos = "Some" THEN <<task_name>> ELSE <<>>

\* faulty variant (sensitivity of C20): the admin kill also removes the entry
handle_service_delete_removing ==
  /\ ApiAccepts
  /\ \E name \in {"dns-sl1", ""} :
       /\ api' = [ApiIdle EXCEPT !.kind = "delete", !.result = "done",
                                 !.killed = IF name # "" THEN kill_task(name) ELSE <<>>]
       /\ IF name # ""
            THEN Call("api", [op |-> "RemoveTask", sender |-> "api", task_name |-> name],
                      "respond")
            ELSE Goto("api", "respond")
  /\ ApiUnchanged

\* run_api.rs 143-160; state.rs 249-251 send_kill_task_by_name
handle_service_delete ==
  /\ ApiAccepts
  /\ \E name \in {"dns-sl1", ""} :
       api' = [ApiIdle EXCEPT !.kind = "delete", !.result = "done",
                              !.killed = IF name # "" THEN kill_task(name) ELSE <<>>]
  /\ Goto("api", "respond")
  /\ ApiUnchanged

\* after send_start_task number api.k returned
ApiNextStart(k, todo, group) ==
  IF k <= Len(todo)
    THEN /\ BeginStartTask("api", todo[k], FALSE)
         /\ api' = [ApiIdle EXCEPT !.kind = "start", !.todo = todo, !.k = k,
                                   !.group = group]
    ELSE /\ Goto("api", "respond")
         /\ api' = [ApiIdle EXCEPT !.kind = "start", !.todo = todo, !.k = k,
                                   !.group = group, !.result = "done"]

handle_start_service_group ==
  /\ ApiAccepts
  /\ \E name \in budget.groups : ApiNextStart(1, GroupTasks(name), name)
  /\ ApiUnchanged

ApiResolved ==
  /\ Got("api", "w_ip")
  /\ Call("api", StartTaskMsg("api", api.todo[api.k], Head(chan["api"]).task_ip, FALSE),
          "w_start")
  /\ UNCHANGED <<api, budget>>
  /\ ApiUnchanged

ApiStarted ==
  /\ Got("api", "w_start")
  /\ ApiNextStart(api.k + 1, api.todo, api.group)
  /\ UNCHANGED budget
  /\ ApiUnchanged

\* the response is written and the handler returns
ApiRespond ==
  /\ pc["api"] = "respond"
  /\ Goto("api", "idle")
  /\ api' = ApiIdle
  /\ UNCHANGED budget
  /\ ApiUnchanged

Api ==
  \/ ApiStart
  \/ ApiListening
  \/ ApiRespond
  \/ handle_ping
  \/ handle_nodes
  \/ ApiNodes
  \/ handle_services
  \/ ApiServices
  \/ handle_service
  \/ ApiService
  \/ handle_service_delete
  \/ handle_start_service_group
  \/ ApiResolved
  \/ ApiStarted

\* ------------------------------------------------------------------------
\* Health supervisor: run_health_checker (run_health_checker.rs)
\* ------------------------------------------------------------------------
HealthUnchanged == UNCHANGED <<inbox, mesos, calls, sched, api, main, seen>>

\* faulty variant (sensitivity of C28): every node gets a clone, whatever
\* the SLA
SingletonsOnAllNodes(task, nodes) ==
  [k \in 1..Len(nodes) |->
     [task EXCEPT !.node_name = nodes[k].name,
                  !.name = task.name \o "-" \o nodes[k].name]]

\* run_health_checker.rs 44-64: the clones of one singleton service
Singletons(task, nodes) ==
  LET keep(node) == task.sla = "SingletonEachNode" \/ node.node_type = "slave"
      picked == SelectSeq(nodes, keep)
  IN  [k \in 1..Len(picked) |->
         [task EXCEPT !.node_name = picked[k].name,
                      !.name = task.name \o "-" \o picked[k].name]]

\* run_health_checker.rs 40-66 from system service number s on, up to the
\* next request_list_nodes: services without SLA are pushed unchanged
RECURSIVE Unchanged(_, _)
Unchanged(s, tasks) ==
  IF s <= Len(budget.services) /\ budget.services[s].sla = "None"
    THEN Unchanged(s + 1, Append(tasks, budget.services[s]))
    ELSE [tasks |-> tasks, s |-> s, k |-> 0]

Expand(s, tasks) ==
  LET h == Unchanged(s, tasks)
  IN  /\ health' = h
      /\ IF h.s > Len(budget.services)
           THEN Goto("health", "sleep")
           ELSE Call("health", [op |-> "GetNodes", sender |-> "health"], "w_nodes")

HealthStart ==
  /\ pc["health"] = "start"
  /\ Call("health", [op |-> "Ping", sender |-> "health"], "w_ping")
  /\ UNCHANGED <<health, budget>>
  /\ HealthUnchanged

HealthExpand ==
  /\ Got("health", "w_ping")
  /\ Expand(1, <<>>)
  /\ UNCHANGED budget
  /\ HealthUnchanged

HealthNodes ==
  /\ Got("health", "w_nodes")
  /\ Expand(health.s + 1,
            health.tasks \o Singletons(budget.services[health.s], Head(chan["health"]).nodes))
  /\ UNCHANGED budget
  /\ HealthUnchanged

\* faulty variant (sensitivity of C29): every round expands the system
\* services again over the node table as it is
HealthCheckExpanding(k) ==
  LET nodes == CHOOSE p \in Perms(node_list) : TRUE
      tasks == Flatten([s \in 1..Len(budget.services) |->
                          IF budget.services[s].sla = "None"
                            THEN <<budget.services[s]>>
                            ELSE Singletons(budget.services[s], nodes)])
  IN  IF k <= Len(tasks)
        THEN /\ health' = [health EXCEPT !.k = k, !.tasks = tasks]
             /\ Call("health", [op |-> "GetTaskState", sender |-> "health",
                                task_name |-> tasks[k].name], "w_state")
        ELSE /\ health' = [health EXCEPT !.k = 0, !.tasks = tasks]
             /\ Goto("health", "sleep")

\* run_health_checker.rs 72-95 from task number k on
HealthCheck(k) ==
  IF k <= Len(health.tasks)
    THEN /\ health' = [health EXCEPT !.k = k]
         /\ Call("health", [op |-> "GetTaskState", sender |-> "health",
                            task_name |-> health.tasks[k].name], "w_state")
    ELSE /\ health' = [health EXCEPT !.k = 0]
         /\ Goto("health", "sleep")

HealthTick ==
  /\ pc["health"] = "sleep"
  /\ budget.ticks # 0
  /\ budget' = [budget EXCEPT !.ticks = Spend(@)]
  /\ HealthCheck(1)
  /\ HealthUnchanged

HealthState ==
  /\ Got("health", "w_state")
  /\ IF Head(chan["health"]).tasks_state = "NotRunning"
       THEN /\ BeginStartTask("health", health.tasks[health.k], TRUE)
            /\ health' = health
       ELSE HealthCheck(health.k + 1)
  /\ UNCHANGED budget
  /\ HealthUnchanged

HealthResolved ==
  /\ Got("health", "w_ip")
  /\ Call("health", StartTaskMsg("health", health.tasks[health.k],
                                 Head(chan["health"]).task_ip, TRUE), "w_start")
  /\ UNCHANGED <<health, budget>>
  /\ HealthUnchanged

HealthStarted ==
  /\ Got("health", "w_start")
  /\ HealthCheck(health.k + 1)
  /\ UNCHANGED budget
  /\ HealthUnchanged

Health ==
  \/ HealthStart
  \/ HealthExpand
  \/ HealthNodes
  \/ HealthTick
  \/ HealthState
  \/ HealthResolved
  \/ HealthStarted

\* ------------------------------------------------------------------------
\* Inputs of the framework driver: offers batches and status updates
\* ------------------------------------------------------------------------
Attr(name, value) == [name |-> name, value |-> value]

\* The offers of one batch come from one slave (scheduler_impl.rs 61-62) and
\* carry that slave's attributes.
Slaves ==
  { [slave_id |-> "S1", attributes |-> <<Attr("machine-name", "n1"),
       Attr("machine-type", "slave"), Attr("machine-function", "dns")>>],
    [slave_id |-> "S2", attributes |-> <<Attr("machine-name", "n2"),
       Attr("machine-type", "master"), Attr("machine-function", "dns")>>],
    [slave_id |-> "S3", attributes |-> <<Attr("machine-name", "n9"),
       Attr("machine-type", "slave")>>] }

OfferedResources ==
  { <<Attr("cpus", 2), Attr("mem", 2)>>,
    <<Attr("cpus", 1), Attr("mem", 1)>>,
    <<Attr("mem", 2)>> }

Batches(max) ==
  UNION {{[k \in 1..n |-> [id |-> k, slave_id |-> sl.slave_id,
                           attributes |-> sl.attributes, resources |-> rs[k]]] :
            rs \in [1..n -> OfferedResources], sl \in Slaves} : n \in 1..max}

\* container inspect data: Id, Config.Hostname, the torc network IPAddress
\* ("" when the path is missing or the address is empty)
Inspects ==
  { [Id |-> <<"c0", "ff">>, Hostname |-> "c0ff", IPAddress |-> "172.18.0.5"],
    [Id |-> <<"c0", "de">>, Hostname |-> "n1", IPAddress |-> ""],
    [Id |-> <<"c0", "de">>, Hostname |-> "c0de", IPAddress |-> ""] }

NoInspect == [Id |-> <<>>, Hostname |-> "", IPAddress |-> ""]

Statuses ==
  {[task_id |-> n, state |-> "TASK_RUNNING", data |-> d, slave_id |-> "S1"] :
     n \in TaskNames, d \in Inspects}
  \cup
  {[task_id |-> n, state |-> "TASK_KILLED", data |-> NoInspect, slave_id |-> "S1"] :
     n \in TaskNames}
  \cup
  {[task_id |-> "dns-sl1", state |-> st, data |-> NoInspect, slave_id |-> "S1"] :
     st \in {"TASK_FINISHED", "TASK_FAILED"}}

\* The inputs of a driver that keeps offering the same slave: one offer of
\* S1 with room for every task, the RUNNING status of dns-sl1 with its IP or
\* with a host name that is no node, and the KILLED status of mon-n1.
SteadyBatches ==
  {b \in Batches(1) : b[1].slave_id = "S1" /\ b[1].resources = <<Attr("cpus", 2), Attr("mem", 2)>>}

\* one offer of the agent on n2, which reports the machine-type slave for
\* the node the configuration declares as master, and one offer of n1 after
\* its agent registered again under another slave id and other attributes
RetypedBatches ==
  {<<[id |-> 1, slave_id |-> "S2",
      attributes |-> <<Attr("machine-name", "n2"), Attr("machine-type", "slave"),
                       Attr("machine-function", "dns")>>,
      resources |-> <<Attr("cpus", 2), Attr("mem", 2)>>]>>,
   <<[id |-> 1, slave_id |-> "S4",
      attributes |-> <<Attr("machine-name", "n1"), Attr("machine-type", "master"),
                       Attr("machine-function", "mon")>>,
      resources |-> <<Attr("cpus", 2), Attr("mem", 2)>>]>>}

SteadyStatuses ==
  {s \in Statuses :
     \/ s.state = "TASK_RUNNING" /\ s.task_id = "dns-sl1" /\ s.data.Hostname # "n1"
     \/ s.state = "TASK_KILLED" /\ s.task_id = "mon-n1"}

\* what the driver delivers in the specification at hand
DriverBatches ==
  CASE budget.driver = "steady" -> SteadyBatches
    [] budget.driver = "statuses" -> SteadyBatches \cup RetypedBatches
    [] OTHER -> Batches(budget.offers)

DriverStatuses == IF budget.driver = "steady" THEN SteadyStatuses ELSE Statuses

\* ------------------------------------------------------------------------
\* TorcScheduler (scheduler_impl.rs)
\* ------------------------------------------------------------------------
\* dependency, blocked and listed are history: the reply of the latest
\* dependency query, the (offer, task) pairs the dependency gate turned
\* down, and whether the task of the status update was in the table when
\* the update arrived
SchedIdle ==
  [offers |-> <<>>, slave_id |-> "", requested_tasks |-> <<>>,
   tasks_to_start |-> <<>>, offers_to_decline |-> <<>>, offers_to_accept |-> <<>>,
   attribute_node_name |-> "", attribute_node_type |-> "",
   attribute_node_function |-> "", offer_cpus |-> 0, offer_mem |-> 0,
   i |-> 0, j |-> 0, dependency |-> "", blocked |-> {},
   status |-> [state |-> ""], new_ip |-> "", listed |-> FALSE]

SchedUnchanged == UNCHANGED <<inbox, api, health, main, seen>>

ClusterCall(op, offer_ids, tasks, ok) ==
  [op |-> op, offer_ids |-> offer_ids, tasks |-> tasks, ok |-> ok]

SchedStart ==
  /\ pc["sched"] = "start"
  /\ Call("sched", [op |-> "Ping", sender |-> "sched"], "w_ping")
  /\ UNCHANGED <<mesos, calls, sched, budget>>
  /\ SchedUnchanged

\* scheduler_impl.rs 42-48: client.reconcile(vec![]).unwrap()
subscribed ==
  /\ Got("sched", "w_ping")
  /\ mesos' = "Some"
  /\ \E ok \in BOOLEAN :
       /\ calls' = <<ClusterCall("reconcile", <<>>, <<>>, ok)>>
       /\ Goto("sched", IF ok THEN "done" ELSE "panicked")
  /\ UNCHANGED <<sched, budget>>
  /\ SchedUnchanged

\* the callback returned to the driver
SchedReturn ==
  /\ pc["sched"] = "done"
  /\ Goto("sched", "idle")
  /\ sched' = SchedIdle
  /\ calls' = <<>>
  /\ UNCHANGED <<mesos, budget>>
  /\ SchedUnchanged

\* scheduler_impl.rs 50-58
inverse_offers ==
  /\ pc["sched"] = "idle"
  /\ budget.batches # 0
  /\ budget' = [budget EXCEPT !.batches = Spend(@)]
  /\ \E ok \in BOOLEAN :
       /\ calls' = <<ClusterCall("decline", <<1>>, <<>>, ok)>>
       /\ Goto("sched", IF ok THEN "done" ELSE "panicked")
  /\ UNCHANGED <<mesos, sched>>
  /\ SchedUnchanged

\* scheduler_impl.rs 82-98: the variables are assigned from the list,
\* the last entry of a name wins, and keep their value otherwise
RECURSIVE Extract(_, _, _)
Extract(list, name, current) ==
  IF list = <<>> THEN current
  ELSE Extract(Tail(list), name,
               IF Head(list).name = name THEN Head(list).value ELSE current)

\* faulty variant (sensitivity of C10): the machine-name filter is missing
PlacementAnyNode(task, s) ==
  /\ ~(task.node_type # "" /\ task.node_type # s.attribute_node_type)
  /\ ~(task.node_function # "" /\ task.node_function # s.attribute_node_function)

\* scheduler_impl.rs 115-125
PlacementOk(task, s) ==
  /\ ~(task.node_name # "" /\ task.node_name # s.attribute_node_name)
  /\ ~(task.node_type # "" /\ task.node_type # s.attribute_node_type)
  /\ ~(task.node_function # "" /\ task.node_function # s.attribute_node_function)

\* faulty variant (sensitivity of C9): a dependency in any state passes
DependencyAny(tasks_state) == TRUE

\* scheduler_impl.rs 128-131
DependencyOk(tasks_state) == tasks_state = "Running"

\* scheduler_impl.rs 134
ResourcesOk(task, s) == ~(s.offer_cpus < task.cpu \/ s.offer_mem < task.memory)

\* faulty variant (sensitivity of C8): decline is called even with no
\* unmatched offer
FinishDecliningAlways(s) ==
  \E lok \in BOOLEAN, dok \in BOOLEAN :
    LET launch == IF Len(s.tasks_to_start) > 0
                    THEN <<[op |-> "launch", offer_ids |-> s.offers_to_accept,
                            tasks |-> s.tasks_to_start, ok |-> lok]>>
                    ELSE <<>>
        returned == launch = <<>> \/ lok
        decline == IF returned
                     THEN <<[op |-> "decline", offer_ids |-> s.offers_to_decline,
                             tasks |-> <<>>, ok |-> dok]>>
                     ELSE <<>>
    IN  /\ calls' = calls \o launch \o decline
        /\ sched' = s
        /\ Goto("sched", IF returned /\ (decline = <<>> \/ dok) THEN "done" ELSE "panicked")

\* scheduler_impl.rs 248-254: launch and decline, each unwrapped
Finish(s) ==
  \E lok \in BOOLEAN, dok \in BOOLEAN :
    LET launch == IF Len(s.tasks_to_start) > 0
                    THEN <<ClusterCall("launch", s.offers_to_accept, s.tasks_to_start, lok)>>
                    ELSE <<>>
        returned == launch = <<>> \/ lok
        decline == IF returned /\ Len(s.offers_to_decline) > 0
                     THEN <<ClusterCall("decline", s.offers_to_decline, <<>>, dok)>>
                     ELSE <<>>
    IN  /\ calls' = calls \o launch \o decline
        /\ sched' = s
        /\ Goto("sched", IF returned /\ (decline = <<>> \/ dok) THEN "done" ELSE "panicked")

\* scheduler_impl.rs 79-111: offer number i of the batch
BeginOffer(i, s) ==
  IF i > Len(s.offers) THEN Finish(s)
  ELSE LET offer == s.offers[i]
           name == Extract(offer.attributes, "machine-name", s.attribute_node_name)
       IN  /\ sched' = [s EXCEPT
                 !.i = i, !.j = 0, !.dependency = "",
                 !.attribute_node_name = name,
                 !.attribute_node_type =
                    Extract(offer.attributes, "machine-type", s.attribute_node_type),
                 !.attribute_node_function =
                    Extract(offer.attributes, "machine-function", s.attribute_node_function),
                 !.offer_mem = Extract(offer.resources, "mem", s.offer_mem),
                 !.offer_cpus = Extract(offer.resources, "cpus", s.offer_cpus)]
           /\ calls' = calls
           /\ Call("sched", [op |-> "GetIsNodeActive", sender |-> "sched",
                             node_name |-> name], "w_active")

\* scheduler_impl.rs 113-136 from task number j of the snapshot on, up to
\* the next request to the actor; 242-244 when the snapshot is exhausted
Scan(j, s) ==
  LET stops == {k \in j..Len(s.requested_tasks) :
                  /\ PlacementOk(s.requested_tasks[k], s)
                  /\ \/ s.requested_tasks[k].dependent_service # ""
                     \/ ResourcesOk(s.requested_tasks[k], s)}
  IN  IF stops = {}
        THEN BeginOffer(s.i + 1, [s EXCEPT !.offers_to_decline =
                                     Append(@, s.offers[s.i].id)])
        ELSE LET k == CHOOSE x \in stops : \A y \in stops : x <= y
                 task == s.requested_tasks[k]
             IN  /\ sched' = [s EXCEPT !.j = k, !.dependency = ""]
                 /\ calls' = calls
                 /\ IF task.dependent_service # ""
                      THEN Call("sched", [op |-> "GetTaskState", sender |-> "sched",
                                          task_name |-> task.dependent_service], "w_dep")
                      ELSE Call("sched", [op |-> "UpdateTaskState", sender |-> "sched",
                                          task_name |-> task.name,
                                          task_state |-> "Accepted"], "w_accept")

\* scheduler_impl.rs 145-239: the launch descriptor of the matched task
TaskInfo(task, s) ==
  [name |-> task.name, slave_id |-> s.slave_id, offer |-> s.offers[s.i].id,
   arguments |-> SelectSeq(task.arguments, LAMBDA a : a # ""),
   mem |-> task.memory, cpus |-> task.cpu, dependency |-> s.dependency]

\* faulty variant (sensitivity of C35): the matched offer is declined too
MatchedAndDeclined(s) ==
  BeginOffer(s.i + 1,
             [s EXCEPT !.tasks_to_start = Append(@, TaskInfo(s.requested_tasks[s.j], s)),
                       !.offers_to_accept = Append(@, s.offers[s.i].id),
                       !.offers_to_decline = Append(@, s.offers[s.i].id)])

\* scheduler_impl.rs 234-239
Matched(s) ==
  BeginOffer(s.i + 1,
             [s EXCEPT !.tasks_to_start = Append(@, TaskInfo(s.requested_tasks[s.j], s)),
                       !.offers_to_accept = Append(@, s.offers[s.i].id)])

offers ==
  /\ pc["sched"] = "idle"
  /\ budget.batches # 0
  /\ budget' = [budget EXCEPT !.batches = Spend(@)]
  /\ \E batch \in DriverBatches :
       sched' = [SchedIdle EXCEPT !.offers = batch, !.slave_id = batch[1].slave_id]
  /\ Call("sched", [op |-> "GetRequestedTasks", sender |-> "sched"], "w_requested")
  /\ UNCHANGED <<mesos, calls>>
  /\ SchedUnchanged

OffersSnapshot ==
  /\ Got("sched", "w_requested")
  /\ BeginOffer(1, [sched EXCEPT !.requested_tasks = Head(chan["sched"]).requested_tasks])
  /\ UNCHANGED <<mesos, budget>>
  /\ SchedUnchanged

\* faulty variant (sensitivity of C39): the node is updated on every offer,
\* whatever the answer to the activity request
OffersNodeActiveAlways ==
  /\ Got("sched", "w_active")
  /\ Call("sched", [op |-> "UpdateNode", sender |-> "sched",
                    node_name |-> sched.attribute_node_name,
                    node_type |-> sched.attribute_node_type,
                    node_function |-> sched.attribute_node_function,
                    slave_id |-> sched.offers[sched.i].slave_id], "w_updnode")
  /\ UNCHANGED <<sched, calls>>
  /\ UNCHANGED <<mesos, budget>>
  /\ SchedUnchanged

OffersNodeActive ==
  /\ Got("sched", "w_active")
  /\ IF ~Head(chan["sched"]).is_active
       THEN /\ Call("sched", [op |-> "UpdateNode", sender |-> "sched",
                              node_name |-> sched.attribute_node_name,
                              node_type |-> sched.attribute_node_type,
                              node_function |-> sched.attribute_node_function,
                              slave_id |-> sched.offers[sched.i].slave_id], "w_updnode")
            /\ UNCHANGED <<sched, calls>>
       ELSE Scan(1, sched)
  /\ UNCHANGED <<mesos, budget>>
  /\ SchedUnchanged

OffersNodeUpdated ==
  /\ Got("sched", "w_updnode")
  /\ Scan(1, sched)
  /\ UNCHANGED <<mesos, budget>>
  /\ SchedUnchanged

OffersDependency ==
  /\ Got("sched", "w_dep")
  /\ LET tasks_state == Head(chan["sched"]).tasks_state
         task == sched.requested_tasks[sched.j]
     IN  IF DependencyOk(tasks_state) /\ ResourcesOk(task, sched)
           THEN /\ sched' = [sched EXCEPT !.dependency = tasks_state]
                /\ calls' = calls
                /\ Call("sched", [op |-> "UpdateTaskState", sender |-> "sched",
                                  task_name |-> task.name,
                                  task_state |-> "Accepted"], "w_accept")
           ELSE Scan(sched.j + 1,
                     IF DependencyOk(tasks_state) THEN sched
                     ELSE [sched EXCEPT !.blocked =
                             @ \cup {<<sched.offers[sched.i].id, task.name>>}])
  /\ UNCHANGED <<mesos, budget>>
  /\ SchedUnchanged

\* faulty variant (sensitivity of C34): the node name is stored for every
\* matched task
OffersAcceptedNaming ==
  /\ Got("sched", "w_accept")
  /\ Call("sched", [op |-> "UpdateTaskNodeName", sender |-> "sched",
                    task_name |-> sched.requested_tasks[sched.j].name,
                    node_name |-> sched.attribute_node_name], "w_nodename")
  /\ UNCHANGED <<sched, calls>>
  /\ UNCHANGED <<mesos, budget>>
  /\ SchedUnchanged

\* scheduler_impl.rs 139-143
OffersAccepted ==
  /\ Got("sched", "w_accept")
  /\ LET task == sched.requested_tasks[sched.j]
     IN  IF task.node_type # "" \/ task.node_function # ""
           THEN /\ Call("sched", [op |-> "UpdateTaskNodeName", sender |-> "sched",
                                  task_name |-> task.name,
                                  node_name |-> sched.attribute_node_name], "w_nodename")
                /\ UNCHANGED <<sched, calls>>
           ELSE Matched(sched)
  /\ UNCHANGED <<mesos, budget>>
  /\ SchedUnchanged

OffersNodeNamed ==
  /\ Got("sched", "w_nodename")
  /\ Matched(sched)
  /\ UNCHANGED <<mesos, budget>>
  /\ SchedUnchanged

\* utils/docker.rs 45-48
UpdateTaskInfoMsg(s, new_ip) ==
  [op |-> "UpdateTaskInfo", sender |-> "sched", task_name |-> s.status.task_id,
   id |-> s.status.data.Id, ip |-> new_ip, slave_id |-> s.status.slave_id]

\* faulty variant (sensitivity of C15): a status other than RUNNING and
\* KILLED puts the task back to Requested
update_requeueing ==
  /\ pc["sched"] = "idle"
  /\ budget.updates # 0
  /\ budget' = [budget EXCEPT !.updates = Spend(@)]
  /\ \E status \in DriverStatuses :
       LET s == [SchedIdle EXCEPT !.status = status, !.new_ip = status.data.IPAddress,
                                  !.listed = Has(task_list, status.task_id)]
       IN  /\ sched' = s
           /\ CASE status.state = "TASK_RUNNING" ->
                     IF s.new_ip = ""
                       THEN Call("sched", [op |-> "GetNode", sender |-> "sched",
                                           node_name |-> status.data.Hostname], "w_node")
                       ELSE Call("sched", UpdateTaskInfoMsg(s, s.new_ip), "w_info")
                [] status.state = "TASK_KILLED" ->
                     Call("sched", [op |-> "RemoveTask", sender |-> "sched",
                                    task_name |-> status.task_id], "w_remove")
                [] OTHER ->
                     Call("sched", [op |-> "UpdateTaskState", sender |-> "sched",
                                    task_name |-> status.task_id,
                                    task_state |-> "Requested"], "w_remove")
  /\ UNCHANGED <<mesos, calls>>
  /\ SchedUnchanged

\* scheduler_impl.rs 261-287; utils/docker.rs handle_inspect_data 26-44
update ==
  /\ pc["sched"] = "idle"
  /\ budget.updates # 0
  /\ budget' = [budget EXCEPT !.updates = Spend(@)]
  /\ \E status \in DriverStatuses :
       LET s == [SchedIdle EXCEPT !.status = status, !.new_ip = status.data.IPAddress,
                                  !.listed = Has(task_list, status.task_id)]
       IN  /\ sched' = s
           /\ CASE status.state = "TASK_RUNNING" ->
                     IF s.new_ip = ""
                       THEN Call("sched", [op |-> "GetNode", sender |-> "sched",
                                           node_name |-> status.data.Hostname], "w_node")
                       ELSE Call("sched", UpdateTaskInfoMsg(s, s.new_ip), "w_info")
                [] status.state = "TASK_KILLED" ->
                     Call("sched", [op |-> "RemoveTask", sender |-> "sched",
                                    task_name |-> status.task_id], "w_remove")
                [] OTHER -> Goto("sched", "done")
  /\ UNCHANGED <<mesos, calls>>
  /\ SchedUnchanged

\* StateManager::request_node (state.rs 363-366) and docker.rs 39-48
UpdateNodeIp ==
  /\ Got("sched", "w_node")
  /\ LET reply == Head(chan["sched"])
         new_ip == IF reply.type = "GetNode" THEN reply.node.ip ELSE sched.new_ip
     IN  /\ sched' = [sched EXCEPT !.new_ip = new_ip]
         /\ Call("sched", UpdateTaskInfoMsg(sched, new_ip), "w_info")
  /\ UNCHANGED <<mesos, calls, budget>>
  /\ SchedUnchanged

\* scheduler_impl.rs 276
UpdateInfoStored ==
  /\ Got("sched", "w_info")
  /\ Call("sched", [op |-> "UpdateTaskState", sender |-> "sched",
                    task_name |-> sched.status.task_id, task_state |-> "Running"],
          "w_setrunning")
  /\ UNCHANGED <<mesos, calls, sched, budget>>
  /\ SchedUnchanged

UpdateRunning ==
  /\ Got("sched", "w_setrunning")
  /\ Goto("sched", "done")
  /\ UNCHANGED <<mesos, calls, sched, budget>>
  /\ SchedUnchanged

UpdateRemoved ==
  /\ Got("sched", "w_remove")
  /\ Goto("sched", "done")
  /\ UNCHANGED <<mesos, calls, sched, budget>>
  /\ SchedUnchanged

Sched ==
  \/ SchedStart
  \/ subscribed
  \/ SchedReturn
  \/ inverse_offers
  \/ offers
  \/ OffersSnapshot
  \/ OffersNodeActive
  \/ OffersNodeUpdated
  \/ OffersDependency
  \/ OffersAccepted
  \/ OffersNodeNamed
  \/ update
  \/ UpdateNodeIp
  \/ UpdateInfoStored
  \/ UpdateRunning
  \/ UpdateRemoved


\* ------------------------------------------------------------------------
\* The process (main.rs): main builds the StateManager, then spawns the
\* admin server, the health supervisor and the scheduler driver
\* ------------------------------------------------------------------------
NoTrail == [trail |-> "", got |-> "", by |-> "", over |-> ""]

Init ==
  /\ task_list = {}
  /\ node_list = {}
  /\ actor = "serving"
  /\ inbox = <<>>
  /\ chan = [c \in Clients |-> <<>>]
  /\ pc = [c \in Clients |->
             IF c = "main" THEN "load" ELSE IF c \in Callers THEN "off" ELSE "unstarted"]
  /\ pushes = [n \in TaskNames |-> 0]
  /\ mesos = "None"
  /\ calls = <<>>
  /\ sched = SchedIdle
  /\ api = ApiIdle
  /\ health = [tasks |-> <<>>, s |-> 0, k |-> 0]
  /\ main = [k |-> 1]
  /\ seen = [n \in TaskNames |-> NoTrail]
  /\ budget = [batches |-> MaxBatches, offers |-> MaxOffers, updates |-> MaxUpdates,
               api |-> MaxApi, ticks |-> MaxTicks, syncs |-> MaxSyncs, calls |-> 0,
               driver |-> "any", groups |-> GroupNames,
               services |-> SystemServices]

Next ==
  \/ MainLoad
  \/ MainAdded
  \/ SyncTick
  \/ SyncPost
  \/ Api
  \/ Sched
  \/ Health

Spec == Init /\ [][Next]_vars

\* the process while no admin request arrives and the sync loop sleeps
OffersInit ==
  /\ task_list = {}
  /\ node_list = {}
  /\ actor = "serving"
  /\ inbox = <<>>
  /\ chan = [c \in Clients |-> <<>>]
  /\ pc = [c \in Clients |->
             IF c = "main" THEN "load" ELSE IF c \in Callers THEN "off" ELSE "unstarted"]
  /\ pushes = [n \in TaskNames |-> 0]
  /\ mesos = "None"
  /\ calls = <<>>
  /\ sched = SchedIdle
  /\ api = ApiIdle
  /\ health = [tasks |-> <<>>, s |-> 0, k |-> 0]
  /\ main = [k |-> 1]
  /\ seen = [n \in TaskNames |-> NoTrail]
  /\ budget = [batches |-> MaxOfferBatches, offers |-> MaxBatchOffers,
               updates |-> MaxOfferUpdates, api |-> 0, ticks |-> MaxOfferTicks,
               syncs |-> 0, calls |-> 0, driver |-> "any", groups |-> GroupNames,
               services |-> SystemServices]

OffersNext ==
  \/ MainLoad
  \/ MainAdded
  \/ ApiStart
  \/ ApiListening
  \/ Sched
  \/ Health

OffersSpec == OffersInit /\ [][OffersNext]_vars

\* The process while the driver delivers several status updates of any kind
\* and offers of one slave, and no admin request arrives
StatusInit ==
  /\ task_list = {}
  /\ node_list = {}
  /\ actor = "serving"
  /\ inbox = <<>>
  /\ chan = [c \in Clients |-> <<>>]
  /\ pc = [c \in Clients |->
             IF c = "main" THEN "load" ELSE IF c \in Callers THEN "off" ELSE "unstarted"]
  /\ pushes = [n \in TaskNames |-> 0]
  /\ mesos = "None"
  /\ calls = <<>>
  /\ sched = SchedIdle
  /\ api = ApiIdle
  /\ health = [tasks |-> <<>>, s |-> 0, k |-> 0]
  /\ main = [k |-> 1]
  /\ seen = [n \in TaskNames |-> NoTrail]
  /\ budget = [batches |-> MaxStatusBatches, offers |-> 1, updates |-> MaxStatusUpdates,
               api |-> 0, ticks |-> MaxStatusTicks, syncs |-> 0, calls |-> 0,
               driver |-> "statuses", groups |-> GroupNames,
               services |-> SystemServices]

StatusSpec == StatusInit /\ [][OffersNext]_vars

\* The process running without bound: the health loop never ends
\* (run_health_checker.rs 68), the driver keeps delivering offers of one
\* slave, the admin keeps starting service groups, and a few status updates
\* arrive.
LiveInit ==
  /\ task_list = {}
  /\ node_list = {}
  /\ actor = "serving"
  /\ inbox = <<>>
  /\ chan = [c \in Clients |-> <<>>]
  /\ pc = [c \in Clients |->
             IF c = "main" THEN "load" ELSE IF c \in Callers THEN "off" ELSE "unstarted"]
  /\ pushes = [n \in TaskNames |-> 0]
  /\ mesos = "None"
  /\ calls = <<>>
  /\ sched = SchedIdle
  /\ api = ApiIdle
  /\ health = [tasks |-> <<>>, s |-> 0, k |-> 0]
  /\ main = [k |-> 1]
  /\ seen = [n \in TaskNames |-> NoTrail]
  /\ budget = [batches |-> Forever, offers |-> 1, updates |-> MaxLiveUpdates,
               api |-> Forever, ticks |-> Forever, syncs |-> 0, calls |-> 0,
               driver |-> "steady", groups |-> GroupNames,
               services |-> SystemServices]

\* the steps a scheduler callback takes once the driver has invoked it
SchedContinues ==
  \/ SchedStart
  \/ subscribed
  \/ SchedReturn
  \/ OffersSnapshot
  \/ OffersNodeActive
  \/ OffersNodeUpdated
  \/ OffersDependency
  \/ OffersAccepted
  \/ OffersNodeNamed
  \/ UpdateInfoStored
  \/ UpdateRunning
  \/ UpdateRemoved

\* the steps of the admin server between two requests
ApiContinues ==
  \/ ApiStart
  \/ ApiListening
  \/ ApiResolved
  \/ ApiStarted
  \/ ApiRespond

LiveNext ==
  \/ MainLoad
  \/ MainAdded
  \/ ApiContinues
  \/ handle_start_service_group
  \/ SchedContinues
  \/ inverse_offers
  \/ offers
  \/ update
  \/ Health

\* every thread keeps running: the health loop and the steps of a callback
\* or handler that has begun are taken; nothing obliges the driver or the
\* admin to send anything
LiveFairness ==
  /\ WF_vars(MainLoad \/ MainAdded)
  /\ WF_vars(Health)
  /\ WF_vars(SchedContinues)
  /\ WF_vars(ApiContinues)

LiveSpec == LiveInit /\ [][LiveNext]_vars /\ LiveFairness

\* The process while the admin starts a group, one of which declares a system
\* service, next to one health tick and the driver's callbacks
RaceInit ==
  /\ task_list = {}
  /\ node_list = {}
  /\ actor = "serving"
  /\ inbox = <<>>
  /\ chan = [c \in Clients |-> <<>>]
  /\ pc = [c \in Clients |->
             IF c = "main" THEN "load" ELSE IF c \in Callers THEN "off" ELSE "unstarted"]
  /\ pushes = [n \in TaskNames |-> 0]
  /\ mesos = "None"
  /\ calls = <<>>
  /\ sched = SchedIdle
  /\ api = ApiIdle
  /\ health = [tasks |-> <<>>, s |-> 0, k |-> 0]
  /\ main = [k |-> 1]
  /\ seen = [n \in TaskNames |-> NoTrail]
  /\ budget = [batches |-> MaxRaceBatches, offers |-> 1, updates |-> MaxRaceUpdates,
               api |-> MaxRaceApi, ticks |-> MaxRaceTicks, syncs |-> 0, calls |-> 0,
               driver |-> "steady", groups |-> {"dns", "sys"},
               services |-> SystemServices]

RaceSpec == RaceInit /\ [][LiveNext]_vars

\* The admin interface next to the health supervisor, no cluster driver:
\* MaxGroupApi start requests for declared groups and for a name no group
\* has, MaxGroupTicks rounds of the health loop.
GroupInit ==
  /\ task_list = {}
  /\ node_list = {}
  /\ actor = "serving"
  /\ inbox = <<>>
  /\ chan = [c \in Clients |-> <<>>]
  /\ pc = [c \in Clients |->
             IF c = "main" THEN "load" ELSE IF c \in Callers THEN "off" ELSE "unstarted"]
  /\ pushes = [n \in TaskNames |-> 0]
  /\ mesos = "None"
  /\ calls = <<>>
  /\ sched = SchedIdle
  /\ api = ApiIdle
  /\ health = [tasks |-> <<>>, s |-> 0, k |-> 0]
  /\ main = [k |-> 1]
  /\ seen = [n \in TaskNames |-> NoTrail]
  /\ budget = [batches |-> 0, offers |-> 0, updates |-> 0, api |-> MaxGroupApi,
               ticks |-> MaxGroupTicks, syncs |-> 0, calls |-> 0, driver |-> "steady",
               groups |-> {"dns", "web", "nogroup"},
               services |-> SystemServices]

GroupNext ==
  \/ MainLoad
  \/ MainAdded
  \/ ApiContinues
  \/ handle_start_service_group
  \/ Health

GroupSpec == GroupInit /\ [][GroupNext]_vars

\* The expansion of the health supervisor over configurations: the node
\* table holds any of three declared nodes (two of type slave), and
\* healthcheck.system_services declares up to MaxServices services of
\* different names, one per SLA.
DeclaredNodes ==
  {NewNode(ConfigNodes[1]), NewNode(ConfigNodes[2]),
   NewNode([ConfigNodes[1] EXCEPT !.name = "n3", !.ip = "10.0.0.3"])}

DeclaredServices ==
  {SystemServices[1], SystemServices[2],
   [SystemServices[2] EXCEPT !.name = "log", !.sla = "SingletonEachNode"]}

ExpandInit ==
  /\ task_list = {}
  /\ node_list \in SUBSET DeclaredNodes
  /\ actor = "serving"
  /\ inbox = <<>>
  /\ chan = [c \in Clients |-> <<>>]
  /\ pc = [c \in Clients |->
             IF c = "main" THEN "join" ELSE IF c \in Callers THEN "off" ELSE "start"]
  /\ pushes = [n \in TaskNames |-> 0]
  /\ mesos = "None"
  /\ calls = <<>>
  /\ sched = SchedIdle
  /\ api = ApiIdle
  /\ health = [tasks |-> <<>>, s |-> 0, k |-> 0]
  /\ main = [k |-> Len(ConfigNodes)]
  /\ seen = [n \in TaskNames |-> NoTrail]
  /\ \E declared \in SUBSET DeclaredServices :
       /\ Cardinality(declared) \in 1..MaxServices
       /\ \E services \in Perms(declared) :
            budget = [batches |-> 0, offers |-> 0, updates |-> 0, api |-> 0,
                      ticks |-> 0, syncs |-> 0, calls |-> 0, driver |-> "steady",
                      groups |-> {}, services |-> services]

ExpandNext ==
  \/ HealthStart
  \/ HealthExpand
  \/ HealthNodes

ExpandSpec == ExpandInit /\ [][ExpandNext]_vars

\* ------------------------------------------------------------------------
\* The actor under concurrent callers of StateManager's public interface,
\* with its channel explicit: send_* / request_* append the request and
\* block on the reply channel created for the call (state.rs 94-383);
\* start_serving receives and handles one request at a time (514-572).
\* ------------------------------------------------------------------------
CallerTasks ==
  {NewTask(d.name, d, resolve_arguments(d.arguments, ""), FALSE) :
     d \in {SystemServices[1], ServiceGroups[1].services[1]}}

CallerNames == {t.name : t \in CallerTasks}

\* task info with empty strings among its arguments
PartialInfos ==
  {[id |-> <<>>, ip |-> "10.0.0.1", slave_id |-> ""],
   [id |-> <<"c0", "de">>, ip |-> "", slave_id |-> "S2"]}

\* the first configured node as a changed configuration document declares it
ReloadedNode == [ConfigNodes[1] EXCEPT !.ip = "10.0.0.7"]

Requests(c) ==
  {[op |-> "StartTask", sender |-> c, task |-> t] : t \in CallerTasks}
  \cup {[op |-> "UpdateTaskState", sender |-> c, task_name |-> n, task_state |-> st] :
          n \in CallerNames, st \in {"Accepted", "Running"}}
  \cup {[op |-> "UpdateTaskInfo", sender |-> c, task_name |-> n, id |-> <<"c0", "ff">>,
         ip |-> "172.18.0.5", slave_id |-> "S1"] : n \in CallerNames}
  \cup {[op |-> "UpdateTaskInfo", sender |-> c, task_name |-> "dns-sl1", id |-> i.id,
         ip |-> i.ip, slave_id |-> i.slave_id] : i \in PartialInfos}
  \cup {[op |-> "UpdateTaskNodeName", sender |-> c, task_name |-> n,
         node_name |-> "n2"] : n \in CallerNames}
  \cup {[op |-> "RemoveTask", sender |-> c, task_name |-> n] : n \in CallerNames}
  \cup {[op |-> "GetTaskState", sender |-> c, task_name |-> n] : n \in CallerNames}
  \cup {[op |-> "GetNode", sender |-> c, node_name |-> n] : n \in {"n1", "n9"}}
  \cup {AddNodeMsg(c, cfg) : cfg \in {ConfigNodes[1], ReloadedNode}}
  \cup {[op |-> "GetTaskNameById", sender |-> c, id_prefix |-> p] :
          p \in IdPrefixes \cup {<<"de">>}}
  \cup {[op |-> "UpdateNode", sender |-> c, node_name |-> "n1", node_type |-> "slave",
         node_function |-> "dns", slave_id |-> "S1"]}

\* the task name a request is about, "" when it is about none
OnTask(m) ==
  CASE m.op = "StartTask" -> m.task.name
    [] m.op \in {"UpdateTaskState", "UpdateTaskInfo", "UpdateTaskNodeName",
                 "RemoveTask", "GetTaskState"} -> m.task_name
    [] OTHER -> ""

\* History: the requests served on one task name since its latest
\* StartTask, as long as they come from the caller of that StartTask, the
\* state GetTaskState then replied, and the state the name was in when the
\* StartTask was served
Observe(m, reply) ==
  LET n == OnTask(m)
      old == seen[n]
      mine == old.by = m.sender /\ old.got = ""
  IN  IF n \notin TaskNames THEN seen
      ELSE [seen EXCEPT ![n] =
             CASE m.op = "StartTask" ->
                    [trail |-> "S", got |-> "", by |-> m.sender,
                     over |-> get_task_state(task_list, n)]
               [] m.op = "UpdateTaskState" /\ m.task_state = "Accepted"
                    /\ mine /\ old.trail = "S" -> [old EXCEPT !.trail = "SA"]
               [] m.op = "UpdateTaskState" /\ m.task_state = "Running"
                    /\ mine /\ old.trail = "SA" -> [old EXCEPT !.trail = "SAR"]
               [] m.op = "RemoveTask" /\ mine /\ old.trail = "S" ->
                    [old EXCEPT !.trail = "SX"]
               [] m.op = "GetTaskState" /\ mine /\ old.trail \in {"S", "SAR", "SX"} ->
                    [old EXCEPT !.got = reply[1].tasks_state]
               [] OTHER -> NoTrail]

ActorInit ==
  /\ task_list = {}
  /\ node_list = {}
  /\ actor = "serving"
  /\ inbox = <<>>
  /\ chan = [c \in Clients |-> <<>>]
  /\ pc = [c \in Clients |-> IF c \in Callers THEN "idle" ELSE "unstarted"]
  /\ pushes = [n \in TaskNames |-> 0]
  /\ mesos = "None"
  /\ calls = <<>>
  /\ sched = SchedIdle
  /\ api = ApiIdle
  /\ health = [tasks |-> <<>>, s |-> 0, k |-> 0]
  /\ main = [k |-> 1]
  /\ seen = [n \in TaskNames |-> NoTrail]
  /\ budget = [batches |-> 0, offers |-> 0, updates |-> 0, api |-> 0, ticks |-> 0,
               syncs |-> 0, calls |-> MaxCalls, driver |-> "any", groups |-> GroupNames,
               services |-> SystemServices]

ThreadsUnchanged == UNCHANGED <<mesos, calls, sched, api, health, main>>

\* self.sender.send(msg).unwrap(): fails, and panics the caller, once the
\* actor's receiver is gone
CallerSend(c) ==
  /\ pc[c] = "idle"
  /\ budget.calls # 0
  /\ budget' = [budget EXCEPT !.calls = Spend(@)]
  /\ IF actor = "serving"
       THEN \E m \in Requests(c) :
              /\ inbox' = Append(inbox, m)
              /\ pc' = [pc EXCEPT ![c] = "waiting"]
       ELSE /\ inbox' = inbox
            /\ pc' = [pc EXCEPT ![c] = "panicked"]
  /\ UNCHANGED <<task_list, node_list, actor, chan, pushes, seen>>
  /\ ThreadsUnchanged

\* one iteration of the loop of start_serving: receive, handle, reply.  A
\* panic of the thread drops the receiver with everything still queued.
Serve ==
  /\ actor = "serving"
  /\ inbox # <<>>
  /\ LET m == Head(inbox)
     IN  \E o \in Dispatch(m) :
           /\ Apply(o)
           /\ inbox' = IF o.actor = "serving" THEN Tail(inbox) ELSE <<>>
           /\ chan' = [chan EXCEPT ![m.sender] = @ \o o.reply]
           /\ seen' = IF o.actor = "serving" THEN Observe(m, o.reply) ELSE seen
  /\ UNCHANGED <<pc, budget>>
  /\ ThreadsUnchanged

\* receiver.recv().unwrap() returns the reply
CallerRecv(c) ==
  /\ pc[c] = "waiting"
  /\ chan[c] # <<>>
  /\ chan' = [chan EXCEPT ![c] = Tail(@)]
  /\ pc' = [pc EXCEPT ![c] = "idle"]
  /\ UNCHANGED <<task_list, node_list, actor, inbox, pushes, seen, budget>>
  /\ ThreadsUnchanged

\* receiver.recv().unwrap() once the actor thread is gone: the reply sender
\* was dropped with the request, recv fails and the caller panics
RecvFails(c) ==
  /\ pc[c] = "waiting"
  /\ chan[c] = <<>>
  /\ actor = "panicked"
  /\ pc' = [pc EXCEPT ![c] = "panicked"]
  /\ UNCHANGED <<task_list, node_list, actor, inbox, chan, pushes, seen, budget>>
  /\ ThreadsUnchanged

ActorNext ==
  \/ \E c \in Callers : CallerSend(c)
  \/ Serve
  \/ \E c \in Callers : CallerRecv(c)
  \/ \E c \in Callers : RecvFails(c)

ActorSpec == ActorInit /\ [][ActorNext]_vars

\* the state-serve thread keeps receiving (state.rs 527-528), and a blocked
\* receiver.recv() returns once a reply is there or its sender was dropped
ActorFairness ==
  /\ WF_vars(Serve)
  /\ \A c \in Callers : WF_vars(CallerRecv(c)) /\ WF_vars(RecvFails(c))

ActorFairSpec == ActorSpec /\ ActorFairness

\* ------------------------------------------------------------------------
\* Properties of the State Actor (ActorSpec)
\* ------------------------------------------------------------------------
\* requests of caller c still queued
Queued(c) == Cardinality({k \in 1..Len(inbox) : inbox[k].sender = c})

\* the actor receives the head of its inbox and handles it to the end
ServesOp(op) ==
  /\ actor = "serving"
  /\ inbox # <<>>
  /\ Head(inbox).op = op
  /\ inbox' = Tail(inbox)

\* C1: every request gets exactly one reply on its own reply channel: a
\* caller blocked on its call has the request still queued at the actor
\* or exactly one reply waiting on the channel of that call.
C1_ExactlyOneReply ==
  \A c \in Callers : pc[c] = "waiting" => Queued(c) + Len(chan[c]) = 1

\* C4: the task table holds at most one entry per name, and serving a
\* StartTask leaves, as the only entry of that name, the new descriptor in
\* state Requested with empty id, ip and slave_id, whatever was there.
C4_OneEntryPerName ==
  /\ [](\A t1 \in task_list : \A t2 \in task_list : t1.name = t2.name => t1 = t2)
  /\ [][ServesOp("StartTask") =>
          LET task == Head(inbox).task
          IN  /\ task \in task_list'
              /\ \A t \in task_list' : t.name = task.name => t = task
              /\ task.state = "Requested"
              /\ task.id = <<>> /\ task.ip = "" /\ task.slave_id = ""]_vars

\* a StartTask was served on a name whose entry was Running and carried an
\* id, and the new entry is in place
C4_Replaced ==
  \E n \in TaskNames :
    /\ seen[n].trail = "S"
    /\ seen[n].over = "Running"
    /\ Has(task_list, n)
    /\ Entry(task_list, n).state = "Requested"
    /\ Entry(task_list, n).id = <<>>

\* C5: StartTask(T) immediately followed, on T.name and from the same
\* caller, by GetTaskState(T.name) returns Requested.
C5_StartThenGet ==
  \A n \in TaskNames :
    (seen[n].trail = "S" /\ seen[n].got # "") => seen[n].got = "Requested"

C5_Started ==
  \E n \in TaskNames :
    /\ seen[n].trail = "S"
    /\ seen[n].got = "Requested"
    /\ seen[n].over \in {"Accepted", "Running"}

\* C6: StartTask(N), UpdateTaskState(N, Accepted), UpdateTaskState(N,
\* Running), GetTaskState(N) from one caller, with no other request on N in
\* between, returns Running.
C6_StartAcceptRunGet ==
  \A n \in TaskNames :
    (seen[n].trail = "SAR" /\ seen[n].got # "") => seen[n].got = "Running"

C6_Ran ==
  \E n \in TaskNames : seen[n].trail = "SAR" /\ seen[n].got = "Running"

\* C7: StartTask(N), RemoveTask(N), GetTaskState(N) returns NotRunning;
\* once RemoveTask(N) is served N is absent from the table; GetTaskState of
\* a name that is not in the table returns NotRunning.
C7_StartRemoveGet ==
  /\ [](\A n \in TaskNames :
          (seen[n].trail = "SX" /\ seen[n].got # "") => seen[n].got = "NotRunning")
  /\ [][ServesOp("RemoveTask") => ~Has(task_list', Head(inbox).task_name)]_vars
  /\ [][(ServesOp("GetTaskState") /\ ~Has(task_list, Head(inbox).task_name)) =>
          chan'[Head(inbox).sender] =
            Append(chan[Head(inbox).sender],
                   [type |-> "TasksState", tasks_state |-> "NotRunning"])]_vars

C7_Removed ==
  \E n \in TaskNames :
    /\ seen[n].trail = "SX"
    /\ seen[n].got = "NotRunning"
    /\ ~Has(task_list, n)

\* ------------------------------------------------------------------------
\* Properties of the whole process (Spec)
\* ------------------------------------------------------------------------
\* the scheduler asked the actor for the node of a container's hostname
AskedNode ==
  /\ sched.status.state = "TASK_RUNNING"
  /\ sched.status.data.IPAddress = ""
  /\ pc["sched"] \in {"w_node", "panicked"}

\* C2: GetNode for a name that is not in the node table is answered (the
\* caller gets a reply) and the actor keeps serving: it never stops.
C2_MissingNodeAnswered ==
  /\ actor = "serving"
  /\ AskedNode => chan["sched"] # <<>>

Names(tasks) == {t.name : t \in tasks}

\* C3: every entry of the task table is Requested, Accepted or Running;
\* the names listed as Requested, as Accepted and as Running are pairwise
\* disjoint and together are all names of the table.
C3_StoredStates ==
  LET requested == Names(get_tasks_with_state(task_list, "Requested"))
      accepted == Names(get_tasks_with_state(task_list, "Accepted"))
      running == Names(get_tasks_with_state(task_list, "Running"))
  IN  /\ \A t \in task_list : t.state \in {"Requested", "Accepted", "Running"}
      /\ requested \cap accepted = {}
      /\ requested \cap running = {}
      /\ accepted \cap running = {}
      /\ requested \cup accepted \cup running = Names(task_list)

C3_AllThree ==
  /\ get_tasks_with_state(task_list, "Requested") # {}
  /\ get_tasks_with_state(task_list, "Accepted") # {}
  /\ get_tasks_with_state(task_list, "Running") # {}

\* ------------------------------------------------------------------------
\* Properties of the offers callback (OffersSpec)
\* ------------------------------------------------------------------------
Launches == SelectSeq(calls, LAMBDA c : c.op = "launch")

Declines == SelectSeq(calls, LAMBDA c : c.op = "decline")

\* an offers callback is in progress or has just ended
InOffers == sched.offers # <<>>

\* the batch's offer ids that were not accepted, in batch order
Unmatched ==
  SelectSeq([k \in 1..Len(sched.offers) |-> sched.offers[k].id],
            LAMBDA id : id \notin Range(sched.offers_to_accept))

\* C8 as stated: for every offers batch at most one launch is issued and
\* exactly one decline, carrying the ids of the unmatched offers.
C8_ExactlyOneDecline ==
  (InOffers /\ pc["sched"] = "done") =>
    /\ Len(Launches) <= 1
    /\ Len(Declines) = 1
    /\ Declines[1].offer_ids = Unmatched

\* C8 amended: for every offers batch at most one launch and at most one
\* decline are issued; when the callback returns, a launch was issued iff
\* some offer matched, it carries the accepted offers, and a decline was
\* issued iff some offer is unmatched, carrying exactly the unmatched ids.
C8_LaunchAndDecline ==
  InOffers =>
    /\ Len(Launches) <= 1
    /\ Len(Declines) <= 1
    /\ pc["sched"] = "done" =>
         /\ Len(Launches) = 1 <=> sched.offers_to_accept # <<>>
         /\ Len(Launches) = 1 => Launches[1].offer_ids = sched.offers_to_accept
         /\ Len(Declines) = 1 <=> Unmatched # <<>>
         /\ Len(Declines) = 1 => Declines[1].offer_ids = Unmatched

\* a batch whose offers all matched: one launch and no decline
C8_AllMatched ==
  /\ InOffers
  /\ pc["sched"] = "done"
  /\ Len(Launches) = 1
  /\ Declines = <<>>

\* the snapshot's task of that name
SnapshotTask(name) == CHOOSE t \in Range(sched.requested_tasks) : t.name = name

\* offer number i of the batch went through the matching loop
Processed(i) == InOffers /\ (i < sched.i \/ calls # <<>>)

\* the text of the offer's attribute, "" when it carries none of that name
OfferAttribute(offer, name) ==
  LET at == {k \in 1..Len(offer.attributes) : offer.attributes[k].name = name}
  IN  IF at = {} THEN ""
      ELSE offer.attributes[CHOOSE k \in at : \A l \in at : l <= k].value

\* the scalar of the offer's resource, 0 when it carries none of that name
OfferResource(offer, name) ==
  LET at == {k \in 1..Len(offer.resources) : offer.resources[k].name = name}
  IN  IF at = {} THEN 0
      ELSE offer.resources[CHOOSE k \in at : \A l \in at : l <= k].value

\* no non-empty filter of the task differs from the offer's attributes
Fits(task, offer) ==
  /\ task.node_name = "" \/ task.node_name = OfferAttribute(offer, "machine-name")
  /\ task.node_type = "" \/ task.node_type = OfferAttribute(offer, "machine-type")
  /\ task.node_function = ""
       \/ task.node_function = OfferAttribute(offer, "machine-function")

Fitting(offer) == {t \in Range(sched.requested_tasks) : Fits(t, offer)}

Declined(offer) ==
  /\ offer.id \in Range(sched.offers_to_decline)
  /\ offer.id \notin Range(sched.offers_to_accept)
  /\ \A k \in 1..Len(sched.tasks_to_start) : sched.tasks_to_start[k].offer # offer.id

\* the tasks fitting the offer exist and were all turned down by the
\* dependency gate
OnlyBlocked(offer) ==
  /\ Fitting(offer) # {}
  /\ \A t \in Fitting(offer) : <<offer.id, t.name>> \in sched.blocked

\* C9: a task with a dependent_service is placed in a launch only if the
\* dependency was in state Running when the task was matched; an offer
\* whose only candidates are tasks blocked by their dependency is declined.
C9_DependencyGate ==
  /\ \A k \in 1..Len(sched.tasks_to_start) :
       SnapshotTask(sched.tasks_to_start[k].name).dependent_service # ""
         => sched.tasks_to_start[k].dependency = "Running"
  /\ \A i \in 1..Len(sched.offers) :
       (Processed(i) /\ OnlyBlocked(sched.offers[i])) => Declined(sched.offers[i])

C9_BlockedOfferDeclined ==
  /\ pc["sched"] = "done"
  /\ \E i \in 1..Len(sched.offers) :
       OnlyBlocked(sched.offers[i]) /\ Declined(sched.offers[i])

LaunchedOn(offer) ==
  {SnapshotTask(sched.tasks_to_start[k].name) :
     k \in {l \in 1..Len(sched.tasks_to_start) : sched.tasks_to_start[l].offer = offer.id}}

\* what the offer offers of both resources is less than the task asks for
Insufficient(task, offer) ==
  \/ OfferResource(offer, "cpus") < task.cpu
  \/ OfferResource(offer, "mem") < task.memory

\* the snapshot tasks that pass the placement filters and the dependency
\* gate for the offer
Eligible(offer) ==
  {t \in Fitting(offer) : <<offer.id, t.name>> \notin sched.blocked}

ListsBoth(offer) ==
  {"cpus", "mem"} \subseteq {offer.resources[k].name : k \in 1..Len(offer.resources)}

\* C11: a task is skipped for resources iff the offer's cpus < task.cpu or
\* the offer's mem < task.memory: no task is launched on an offer that is
\* insufficient for it, and an offer is left unmatched only if it is
\* insufficient for every task that passes filters and dependency (so an
\* offer with exactly the task's cpu and memory matches).
C11_ResourceCheck ==
  \A i \in 1..Len(sched.offers) :
    Processed(i) =>
      /\ \A t \in LaunchedOn(sched.offers[i]) : ~Insufficient(t, sched.offers[i])
      /\ Declined(sched.offers[i]) =>
           \A t \in Eligible(sched.offers[i]) : Insufficient(t, sched.offers[i])

\* C11 for the offers that list both cpus and mem
C11_ListedResources ==
  \A i \in 1..Len(sched.offers) :
    (Processed(i) /\ ListsBoth(sched.offers[i])) =>
      /\ \A t \in LaunchedOn(sched.offers[i]) : ~Insufficient(t, sched.offers[i])
      /\ Declined(sched.offers[i]) =>
           \A t \in Eligible(sched.offers[i]) : Insufficient(t, sched.offers[i])

\* a task launched on an offer with exactly its cpu and memory
C11_ExactFit ==
  \E i \in 1..Len(sched.offers) :
    \E t \in LaunchedOn(sched.offers[i]) :
      /\ ListsBoth(sched.offers[i])
      /\ t.cpu = OfferResource(sched.offers[i], "cpus")
      /\ t.memory = OfferResource(sched.offers[i], "mem")

\* ------------------------------------------------------------------------
\* Argument resolution of dependent tasks
\* ------------------------------------------------------------------------
\* the configured descriptors a StartTask can be issued for
Templates ==
  Range(Flatten([g \in 1..Len(ServiceGroups) |-> GroupTasks(ServiceGroups[g].name)]))
    \cup Range(health.tasks)

\* the task descriptors handed to the cluster by the running callback
LaunchedTasks == UNION {Range(Launches[k].tasks) : k \in 1..Len(Launches)}

\* the launch arguments a template yields with the given IP of dns-sl1
WithIp(d, ip) ==
  SelectSeq([k \in 1..Len(d.arguments) |->
               CASE d.arguments[k] = "$MASTER_IP" -> MasterIp
                 [] d.arguments[k] = "$IP_DNS_SL1" -> ip
                 [] OTHER -> d.arguments[k]],
            LAMBDA a : a # "")

\* a launched task whose template names $IP_DNS_SL1, while dns-sl1 is Running
LaunchedAsking(t, d) ==
  /\ d.name = t.name
  /\ "$IP_DNS_SL1" \in Range(d.arguments)
  /\ get_task_state(task_list, "dns-sl1") = "Running"

\* C12: a task whose arguments contain $IP_DNS_SL1 and that is launched
\* after dns-sl1 reached Running is launched with dns-sl1's stored IP in
\* place of $IP_DNS_SL1, whenever its StartTask was issued.
C12_LaunchedWithIp ==
  \A t \in LaunchedTasks : \A d \in Templates :
    LaunchedAsking(t, d) =>
      t.arguments = WithIp(d, get_task_ip_by_name(task_list, "dns-sl1"))

\* a dependent task launched with the IP of dns-sl1 in its arguments
C12_CarriesIp ==
  \E t \in LaunchedTasks : \E d \in Templates :
    /\ LaunchedAsking(t, d)
    /\ get_task_ip_by_name(task_list, "dns-sl1") # ""
    /\ t.arguments = WithIp(d, get_task_ip_by_name(task_list, "dns-sl1"))

\* ------------------------------------------------------------------------
\* Registry pushes of the actor
\* ------------------------------------------------------------------------
IsRunning(tl, n) == get_task_state(tl, n) = "Running"

\* the step that takes task n to Running makes one push, together with the
\* reply of the request that caused it
PushOnTransition(n) ==
  (~IsRunning(task_list, n) /\ IsRunning(task_list', n)) =>
    pushes'[n] = pushes[n] + 1

\* no push is made for n by a step that finds and leaves it Running
NoPushWhileRunning(n) ==
  (IsRunning(task_list, n) /\ IsRunning(task_list', n)) => pushes'[n] = pushes[n]

\* C13: a task in state Running has had exactly one registry push from
\* UpdateTaskState(Running) since it was inserted: the push is made by the
\* step that takes it to Running, before the reply, and no later step that
\* leaves it Running (a repeated RUNNING status) pushes again.
C13_ExactlyOnePush ==
  [][\A n \in TaskNames : PushOnTransition(n) /\ NoPushWhileRunning(n)]_vars

\* the part of C13 that is about the first RUNNING status of a task
C13_PushBeforeReply == [][\A n \in TaskNames : PushOnTransition(n)]_vars

\* a Running task that was pushed to the registry once
C13_PushedOnce ==
  \E n \in TaskNames : IsRunning(task_list, n) /\ pushes[n] = 1

\* ------------------------------------------------------------------------
\* Task state transitions made by the process
\* ------------------------------------------------------------------------
\* the step takes task n from state a to state b
Moves(n, a, b) ==
  get_task_state(task_list, n) = a /\ get_task_state(task_list', n) = b

\* C14: within one launch attempt a task's state only moves forward along
\* Requested -> Accepted -> Running: no step takes a task from Requested
\* straight to Running, and none takes it from Running back to Accepted.
C14_ForwardOnly ==
  [][\A n \in TaskNames :
       ~Moves(n, "Requested", "Running") /\ ~Moves(n, "Running", "Accepted")]_vars

\* the part of C14 about Running: no step returns a task to Accepted
C14_NeverBackToAccepted ==
  [][\A n \in TaskNames : ~Moves(n, "Running", "Accepted")]_vars

\* the step is made by a scheduler callback
SchedulerStep == sched' # sched \/ pc'["sched"] # pc["sched"]

\* the callback in progress handles a status update of that kind for task n
Handles(s, kind, n) ==
  "task_id" \in DOMAIN s.status /\ s.status.state = kind /\ s.status.task_id = n

\* C15: no scheduler callback moves a task from Accepted back to
\* Requested; a task leaves Accepted only to Running in the callback of a
\* RUNNING status for it, by removal in the callback of a KILLED status for
\* it, or to Requested by a StartTask of another thread.
C15_AcceptedStays ==
  [][\A n \in TaskNames : \A b \in TaskStates \ {"Accepted"} :
       Moves(n, "Accepted", b) =>
         \/ b = "Running" /\ Handles(sched', "TASK_RUNNING", n)
         \/ b = "NotRunning" /\ Handles(sched', "TASK_KILLED", n)
         \/ b = "Requested" /\ ~SchedulerStep]_vars

\* the launch of an Accepted task failed and the task is still Accepted
C15_AcceptedAfterFailedLaunch ==
  \E k \in 1..Len(Launches) : \E t \in Range(Launches[k].tasks) :
    ~Launches[k].ok /\ get_task_state(task_list, t.name) = "Accepted"

\* ------------------------------------------------------------------------
\* Re-convergence by the health supervisor (LiveSpec)
\* ------------------------------------------------------------------------
\* the names of the expanded system services over the configured nodes
SystemTaskNames ==
  UNION {IF SystemServices[k].sla = "None"
           THEN {SystemServices[k].name}
           ELSE {t.name : t \in Range(Singletons(SystemServices[k],
                                   [c \in 1..Len(ConfigNodes) |-> NewNode(ConfigNodes[c])]))} :
         k \in 1..Len(SystemServices)}

\* the launch that carried task n failed, after n was marked Accepted
FailedLaunch(n) ==
  /\ get_task_state(task_list, n) = "Accepted"
  /\ \E k \in 1..Len(Launches) :
       ~Launches[k].ok /\ n \in {t.name : t \in Range(Launches[k].tasks)}

\* C16: a system-service task whose launch failed after it was marked
\* Accepted is eventually re-requested by the health supervisor: it returns
\* to Requested.
C16_ReRequested ==
  \A n \in SystemTaskNames :
    FailedLaunch(n) ~> (get_task_state(task_list, n) = "Requested")

\* the launch of a system service failed and left it Accepted
C16_LaunchFailed == \E n \in SystemTaskNames : FailedLaunch(n)

\* ------------------------------------------------------------------------
\* The health supervisor's StartTask (RaceSpec)
\* ------------------------------------------------------------------------
\* the step in which the actor applies the StartTask of the health tick
HealthStartTaskStep ==
  /\ pc["health"] \in {"w_state", "w_ip"}
  /\ pc'["health"] = "w_start"

\* C17: in every interleaving with admin handlers and scheduler callbacks,
\* the StartTask of a health tick is applied only to a task that is absent:
\* it never overwrites an entry that is Requested, Accepted or Running.
C17_StartsOnlyAbsent ==
  [][HealthStartTaskStep =>
       get_task_state(task_list, health.tasks[health.k].name) = "NotRunning"]_vars

\* the health supervisor has started a task
C17_HealthStarted ==
  /\ pc["health"] = "w_start"
  /\ get_task_state(task_list, health.tasks[health.k].name) = "Requested"

\* ------------------------------------------------------------------------
\* Restart of absent system services (LiveSpec)
\* ------------------------------------------------------------------------
Absent(n) == get_task_state(task_list, n) = "NotRunning"

\* C18: under fairness of the health loop, a task of the expanded
\* system-service list that is absent from the task table (never started,
\* or removed after a KILLED status) is eventually in the table in state
\* Requested again.
C18_AbsentRestarted ==
  \A n \in SystemTaskNames :
    Absent(n) ~> (get_task_state(task_list, n) = "Requested")

\* C18 in the behaviours in which the actor thread never panics
C18_RestartedWhileServing ==
  [](actor = "serving") => C18_AbsentRestarted

\* a system service was removed after a KILLED status while the health loop
\* is running
C18_Removed ==
  /\ Handles(sched, "TASK_KILLED", "mon-n1")
  /\ pc["sched"] = "w_remove"
  /\ Absent("mon-n1")
  /\ health.tasks # <<>>

\* ------------------------------------------------------------------------
\* Progress of Requested tasks (LiveSpec)
\* ------------------------------------------------------------------------
IsRequested(n) == get_task_state(task_list, n) = "Requested"

\* the offer passes the task's placement filters, dependency and resources
SatisfiedBy(t, offer) ==
  /\ Fits(t, offer)
  /\ ~Insufficient(t, offer)
  /\ t.dependent_service = "" \/ IsRunning(task_list, t.dependent_service)

\* a batch has just arrived with an offer that satisfies the Requested task n
OfferedFit(n) ==
  /\ pc["sched"] = "w_requested"
  /\ IsRequested(n)
  /\ \E k \in 1..Len(sched.offers) : SatisfiedBy(Entry(task_list, n), sched.offers[k])

\* C19: under fairness, a Requested task for which satisfying offers keep
\* arriving eventually leaves Requested; none waits forever while other
\* tasks keep being matched.
C19_NoStarvation ==
  \A n \in TaskNames :
    ([]<>OfferedFit(n)) => (IsRequested(n) ~> ~IsRequested(n))

\* a batch whose offer satisfied mon-n1 ended with another task launched
\* and mon-n1 still Requested
C19_PassedOver ==
  /\ pc["sched"] = "done"
  /\ IsRequested("mon-n1")
  /\ \E k \in 1..Len(sched.offers) : SatisfiedBy(Entry(task_list, "mon-n1"), sched.offers[k])
  /\ \E t \in LaunchedTasks : t.name # "mon-n1"

\* ------------------------------------------------------------------------
\* The admin kill
\* ------------------------------------------------------------------------
\* the step in which DELETE /service is handled
KillStep ==
  /\ pc["api"] = "idle"
  /\ pc'["api"] # "idle"
  /\ api'.kind = "delete"

C20_KilledBeforeSubscribe ==
  /\ pc["api"] = "respond"
  /\ api.kind = "delete"
  /\ mesos = "None"
  /\ api.killed = <<>>

\* ------------------------------------------------------------------------
\* Status updates (StatusSpec)
\* ------------------------------------------------------------------------
\* the step in which the callback of a KILLED status for n has its
\* RemoveTask served
KilledStep(n) ==
  /\ pc["sched"] = "idle"
  /\ pc'["sched"] = "w_remove"
  /\ Handles(sched', "TASK_KILLED", n)

\* C21: a KILLED status for task n removes n from the task table whatever
\* its state, so that GetTaskState(n) answers NotRunning; every other entry
\* is unchanged.
C21_KilledRemoves ==
  [][\A n \in TaskNames :
       KilledStep(n) =>
         /\ get_task_state(task_list', n) = "NotRunning"
         /\ \A t \in task_list' : t.name # n
         /\ \A t \in task_list : t.name # n => t \in task_list'
         /\ task_list' \subseteq task_list]_vars

\* a Running task was removed by its KILLED status, another entry is kept
C21_RunningRemoved ==
  /\ pc["sched"] = "w_remove"
  /\ Handles(sched, "TASK_KILLED", "dns-sl1")
  /\ pushes["dns-sl1"] = 1
  /\ Absent("dns-sl1")
  /\ ~Absent("mon-n1")

\* the step that sets task n Running in the callback of a RUNNING status
RunningStep(n) ==
  /\ pc["sched"] = "w_info"
  /\ pc'["sched"] = "w_setrunning"
  /\ Handles(sched, "TASK_RUNNING", n)
  /\ IsRunning(task_list', n)

\* the IP a RUNNING status stands for: the torc network IP, else the IP the
\* node table holds for the inspect Hostname
StatusIp(status) ==
  IF status.data.IPAddress # "" THEN status.data.IPAddress
  ELSE IF Has(node_list, status.data.Hostname)
         THEN Entry(node_list, status.data.Hostname).ip
         ELSE ""

\* the entry holds what UpdateTaskInfo stores for the status
CarriesInfo(t, status) ==
  /\ t.id = status.data.Id
  /\ t.slave_id = status.slave_id
  /\ t.ip = StatusIp(status)

\* C22: on a RUNNING status for a task in the table, id, IP and slave id
\* are stored before the state is set to Running, so a task that becomes
\* Running already carries the id, the slave id and the IP of that status
\* (the torc IP, or the node-table IP of the inspect Hostname).
C22_InfoBeforeRunning ==
  [][\A n \in TaskNames :
       (RunningStep(n) /\ sched.listed) =>
         /\ ~Absent(n)
         /\ CarriesInfo(Entry(task_list, n), sched.status)
         /\ CarriesInfo(Entry(task_list', n), sched.status)]_vars

\* the same for the steps that find the entry the status arrived for: no
\* StartTask replaced it since
C22_InfoKeptUntilRunning ==
  [][\A n \in TaskNames :
       (RunningStep(n) /\ sched.listed /\ Entry(task_list, n).id # <<>>) =>
         CarriesInfo(Entry(task_list', n), sched.status)]_vars

\* a listed task became Running carrying the id, slave id and IP of its status
C22_RunningWithInfo ==
  /\ pc["sched"] = "w_setrunning"
  /\ sched.listed
  /\ IsRunning(task_list, sched.status.task_id)
  /\ CarriesInfo(Entry(task_list, sched.status.task_id), sched.status)

\* the RUNNING status for task n arrives with no torc IP and a Hostname the
\* node table does not hold
UnknownHostStep(n) ==
  /\ pc["sched"] = "idle"
  /\ Handles(sched', "TASK_RUNNING", n)
  /\ sched'.status.data.IPAddress = ""
  /\ ~Has(node_list, sched'.status.data.Hostname)

\* C23: a RUNNING status with no torc IP whose Hostname names no node
\* leaves the State Actor and the scheduler running (the callback goes on
\* to store the info with the ip unchanged).
C23_UnknownHostSurvived ==
  [][\A n \in TaskNames :
       UnknownHostStep(n) =>
         /\ actor' = "serving"
         /\ pc'["sched"] = "w_node"]_vars

\* the status with the unknown Hostname was delivered for a listed task
C23_UnknownHostDelivered ==
  /\ Handles(sched, "TASK_RUNNING", "dns-sl1")
  /\ sched.listed
  /\ sched.status.data.IPAddress = ""
  /\ ~Has(node_list, sched.status.data.Hostname)
  /\ ~IsRunning(task_list, "dns-sl1")

\* the scheduler callback made cluster calls in this step and the last of
\* them failed
FailedCallStep ==
  /\ calls' # calls
  /\ calls' # <<>>
  /\ ~calls'[Len(calls')].ok

\* C24: a failed cluster call (launch, decline or reconcile; the outcome of
\* kill is not looked at) is swallowed: the callback that made it returns
\* normally and the task table is as it was just before the call.
C24_FailureSwallowed ==
  [][FailedCallStep => (pc'["sched"] = "done" /\ task_list' = task_list)]_vars

\* a launch of an accepted task failed
C24_FailedLaunch ==
  /\ calls # <<>>
  /\ calls[Len(calls)].op = "launch"
  /\ ~calls[Len(calls)].ok
  /\ \E t \in task_list : t.state = "Accepted"

\* the actor serves an AddNode for a name the node table already holds
ReAddStep(n) ==
  /\ ServesOp("AddNode")
  /\ Head(inbox).node.name = n
  /\ Has(node_list, n)

\* C25: AddNode for a name already in the node table changes no field of
\* the existing record (ip, external_ip, management_ip, node_type,
\* node_function, slave_id and active keep their values).
C25_ReAddKeepsRecord ==
  [][\A n \in {"n1", "n2"} :
       ReAddStep(n) => (Has(node_list', n) /\ Entry(node_list', n) = Entry(node_list, n))]_vars

\* the actor is about to serve an AddNode for a node that is active
C25_ActiveReAdded ==
  /\ actor = "serving"
  /\ inbox # <<>>
  /\ Head(inbox).op = "AddNode"
  /\ Has(node_list, "n1")
  /\ Entry(node_list, "n1").active

ConfiguredNames == {ConfigNodes[k].name : k \in 1..Len(ConfigNodes)}

\* the offers callback, having read node n as inactive or active for the
\* offer it is at, goes on with that offer
OfferedStep(n) ==
  /\ pc["sched"] = "w_active"
  /\ sched.attribute_node_name = n
  /\ pc'["sched"] \notin {"w_active", "panicked"}

\* C26: a configured node enters the node table inactive, is active once
\* the offers callback has gone past the activation of an offer named
\* after it, is activated by no other step, and once active stays active.
C26_ActiveOnceOffered ==
  [][\A n \in ConfiguredNames :
       /\ (~Has(node_list, n) /\ Has(node_list', n)) => ~is_node_active(node_list', n)
       /\ is_node_active(node_list, n) => is_node_active(node_list', n)
       /\ (OfferedStep(n) /\ Has(node_list, n)) => is_node_active(node_list', n)
       /\ (~is_node_active(node_list, n) /\ is_node_active(node_list', n)) =>
             OfferedStep(n)]_vars

\* n1 was activated by the first offer and a later offer of the batch, named
\* after no node, is being matched
C26_ActivatedAndKept ==
  /\ is_node_active(node_list, "n1")
  /\ ~is_node_active(node_list, "n2")
  /\ Has(node_list, "n2")
  /\ sched.offers # <<>>
  /\ sched.i = 2

\* the task names a start request for group name is to enqueue: <name>-0 ..
\* <name>-(n-1) for a service of n > 1 instances, the name itself for n = 1
NumberedNames(service) ==
  IF service.number_of_instances > 1
    THEN {service.name \o "-" \o ToString(i) : i \in 0..(service.number_of_instances - 1)}
    ELSE IF service.number_of_instances = 1 THEN {service.name} ELSE {}

GroupTaskNames(name) ==
  UNION {UNION {NumberedNames(g.services[sv]) : sv \in 1..Len(g.services)} :
           g \in {x \in Range(ServiceGroups) : x.name = name}}

TodoNames == {api.todo[k].name : k \in 1..Len(api.todo)}

\* C27: a start request for a group has sent, when it answers, exactly one
\* StartTask per instance name of the group's services (<name>-0 ..
\* <name>-(n-1) for n > 1, the unchanged name for n = 1), none for a name
\* no group has, and it answers done; each of these StartTask calls leaves
\* its task in the table in state Requested.
C27_GroupEnqueued ==
  [][/\ (pc'["api"] = "respond" /\ api'.kind = "start") =>
          /\ api'.result = "done"
          /\ api'.k = Len(api'.todo) + 1
          /\ {api'.todo[k].name : k \in 1..Len(api'.todo)} = GroupTaskNames(api'.group)
          /\ Len(api'.todo) = Cardinality(GroupTaskNames(api'.group))
     /\ (pc'["api"] = "w_start" /\ pc["api"] # "w_start") =>
          get_task_state(task_list', api'.todo[api'.k].name) = "Requested"
     /\ (pc'["api"] = "w_start" /\ pc["api"] = "w_start" /\ api'.k # api.k) =>
          get_task_state(task_list', api'.todo[api'.k].name) = "Requested"]_vars

\* the start of group web answered with web-0, web-1 and lb enqueued
C27_WebStarted ==
  /\ pc["api"] = "respond"
  /\ api.group = "web"
  /\ api.result = "done"
  /\ \A n \in {"web-0", "web-1", "lb"} : get_task_state(task_list, n) = "Requested"
  /\ ~Has(task_list, "web")

\* the start of a name no group has answered
C27_NoGroupAnswered ==
  /\ pc["api"] = "respond"
  /\ api.group = "nogroup"
  /\ api.result = "done"
  /\ api.todo = <<>>

\* the expansion of the health supervisor is complete
Expanded == pc["health"] = "sleep" /\ health.s > Len(budget.services)

\* the tasks of the expansion under that name
Clones(name) == {k \in 1..Len(health.tasks) : health.tasks[k].name = name}

\* the nodes service gets a clone for
CloneNodes(service) ==
  IF service.sla = "SingletonEachNode" THEN node_list
  ELSE {node \in node_list : node.node_type = "slave"}

\* the names the expansion of service is to hold
ExpansionNames(service) ==
  IF service.sla = "None" THEN {service.name}
  ELSE {service.name \o "-" \o node.name : node \in CloneNodes(service)}

\* C28: the expansion holds, for a service of SLA None, one task with the
\* unchanged name; for SingletonEachNode one task per node of the node
\* table, named <name>-<node> with node_name that node; for
\* SingletonEachSlave the same over the nodes of type slave only; and
\* nothing else.
C28_Expansion ==
  Expanded =>
    /\ \A k \in 1..Len(budget.services) :
         LET service == budget.services[k]
         IN  IF service.sla = "None"
               THEN /\ Cardinality(Clones(service.name)) = 1
                    /\ \A c \in Clones(service.name) : health.tasks[c] = service
               ELSE \A node \in CloneNodes(service) :
                      LET name == service.name \o "-" \o node.name
                      IN  /\ Cardinality(Clones(name)) = 1
                          /\ \A c \in Clones(name) :
                               health.tasks[c] =
                                 [service EXCEPT !.name = name, !.node_name = node.name]
    /\ \A c \in 1..Len(health.tasks) :
         \E k \in 1..Len(budget.services) :
           health.tasks[c].name \in ExpansionNames(budget.services[k])
    /\ Len(health.tasks) =
         Cardinality(UNION {ExpansionNames(budget.services[k]) :
                              k \in 1..Len(budget.services)})

\* both singleton SLAs were expanded over a table of two slaves and a master
C28_BothSingletons ==
  /\ Expanded
  /\ Cardinality(node_list) = 3
  /\ {budget.services[k].sla : k \in 1..Len(budget.services)} =
       {"SingletonEachNode", "SingletonEachSlave"}
  /\ Len(health.tasks) = 5

\* a slave singleton was expanded over a table without a slave
C28_NoSlave ==
  /\ Expanded
  /\ node_list # {}
  /\ \A node \in node_list : node.node_type # "slave"
  /\ budget.services[1].sla = "SingletonEachSlave"
  /\ Len(budget.services) = 1
  /\ health.tasks = <<>>

\* the supervisor has left its startup: the task list of its loop is built
InLoop == health.s > Len(budget.services)

LoopNames == {health.tasks[k].name : k \in 1..Len(health.tasks)}

\* C29: once the health supervisor has built its task list at startup, no
\* step changes the list, whatever happens to the node table, and every
\* StartTask the supervisor issues is for a name of that list.
C29_FixedNames ==
  [][InLoop =>
       /\ health'.tasks = health.tasks
       /\ HealthStartTaskStep =>
            /\ health.k \in 1..Len(health.tasks)
            /\ \A t \in task_list' \ task_list : t.name = health.tasks[health.k].name
            /\ \A t \in task_list' \ task_list : t.name \in LoopNames]_vars

\* n2 was retyped slave after the startup of the supervisor, whose list has
\* no clone for it, and the supervisor issued a StartTask since
C29_RetypedAfterStartup ==
  /\ InLoop
  /\ Has(node_list, "n2")
  /\ Entry(node_list, "n2").node_type = "slave"
  /\ Entry(node_list, "n2").active
  /\ LoopNames = {"dns-sl1", "mon-n1"}
  /\ pc["health"] = "w_start"

\* the reply the actor sends in this step
SentReply == chan'[Head(inbox).sender][Len(chan'[Head(inbox).sender])]

\* the tasks GetTaskNameById(p) may name
Named(p) == {t \in task_list : t.id # <<>> /\ StartsWith(t.id, p)}

\* C30: GetTaskNameById(p) answers the name of a task of the table whose id
\* is not empty and starts with p, or the empty string when there is no
\* such task; a task with an empty id is never named, also for p empty.
C30_NameById ==
  [][ServesOp("GetTaskNameById") =>
       LET p == Head(inbox).id_prefix
       IN  /\ chan'[Head(inbox).sender] # <<>>
           /\ SentReply.type = "TaskName"
           /\ IF Named(p) = {}
                THEN SentReply.task_name = ""
                ELSE \E t \in Named(p) : SentReply.task_name = t.name]_vars

\* a task was named while the table held a task without an id as well
C30_NamedAmongUnlaunched ==
  /\ \E c \in Callers :
       /\ chan[c] # <<>>
       /\ Head(chan[c]).type = "TaskName"
       /\ Head(chan[c]).task_name # ""
  /\ \E t \in task_list : t.id = <<>>

\* the empty prefix is asked for while no task of the table has an id
C30_EmptyPrefixNoIds ==
  /\ actor = "serving"
  /\ inbox # <<>>
  /\ Head(inbox).op = "GetTaskNameById"
  /\ Head(inbox).id_prefix = <<>>
  /\ task_list # {}
  /\ \A t \in task_list : t.id = <<>>

\* the value a field holds after an update with argument arg
Overwritten(arg, empty, stored) == IF arg # empty THEN arg ELSE stored

\* C31: UpdateTaskInfo(name, id, ip, slave_id) overwrites exactly those of
\* the task's id, ip and slave_id whose argument is not empty; a field whose
\* argument is empty keeps its stored value, every other field of the task,
\* every other task and the node table are unchanged.
C31_InfoFrame ==
  [][ServesOp("UpdateTaskInfo") =>
       LET m == Head(inbox)
       IN  /\ node_list' = node_list
           /\ {t.name : t \in task_list'} = {t.name : t \in task_list}
           /\ \A t \in task_list : t.name # m.task_name => t \in task_list'
           /\ Has(task_list, m.task_name) =>
                LET old == Entry(task_list, m.task_name)
                    new == Entry(task_list', m.task_name)
                IN  /\ new.id = Overwritten(m.id, <<>>, old.id)
                    /\ new.ip = Overwritten(m.ip, "", old.ip)
                    /\ new.slave_id = Overwritten(m.slave_id, "", old.slave_id)
                    /\ [new EXCEPT !.id = old.id, !.ip = old.ip,
                                   !.slave_id = old.slave_id] = old]_vars

\* dns-sl1 holds the id and slave id of a full update and the ip of a later
\* update whose id and slave id were empty
C31_PartlyOverwritten ==
  /\ Has(task_list, "dns-sl1")
  /\ Entry(task_list, "dns-sl1").id = <<"c0", "ff">>
  /\ Entry(task_list, "dns-sl1").ip = "10.0.0.1"
  /\ Entry(task_list, "dns-sl1").slave_id = "S1"

\* C32: under fairness every client call that has sent its request
\* eventually receives its reply and returns.
C32_EveryCallReturns ==
  \A c \in Callers : (pc[c] = "waiting") ~> (pc[c] = "idle")

\* the same for as long as the state-serve thread lives
CallsReturnWhileServing ==
  \A c \in Callers : (pc[c] = "waiting") ~> (pc[c] = "idle" \/ actor = "panicked")

\* a caller's request is queued behind the request that ends the actor
C32_QueuedBehindGetNode ==
  /\ actor = "serving"
  /\ Len(inbox) = 2
  /\ inbox[1].op = "GetNode"
  /\ ~Has(node_list, inbox[1].node_name)
  /\ inbox[2].op = "UpdateTaskState"
  /\ inbox[2].task_state = "Running"

\* the scheduler takes a status update that is neither RUNNING nor KILLED
IgnoredStatusStep ==
  /\ pc["sched"] = "idle"
  /\ "task_id" \in DOMAIN sched'.status
  /\ sched'.status.state \notin {"TASK_RUNNING", "TASK_KILLED"}

\* C33: a status update with state FINISHED, or any state other than
\* RUNNING and KILLED, leaves the task table and the node table unchanged
\* and the callback returns without a request to the actor.
C33_IgnoredStatus ==
  [][IgnoredStatusStep =>
       /\ task_list' = task_list
       /\ node_list' = node_list
       /\ pushes' = pushes
       /\ pc'["sched"] = "done"]_vars

\* the FINISHED status of the Running dns-sl1 was handled: it is still Running
C33_FinishedStaysRunning ==
  /\ pc["sched"] = "done"
  /\ Handles(sched, "TASK_FINISHED", "dns-sl1")
  /\ IsRunning(task_list, "dns-sl1")

\* the offers callback, having marked its match Accepted, goes on
AfterAcceptStep ==
  /\ pc["sched"] = "w_accept"
  /\ pc'["sched"] \notin {"w_accept", "panicked"}

\* C34: on a match the stored node_name of the task becomes the offer's
\* machine-name iff the task's node_type or node_function is not empty;
\* otherwise the entry keeps the node_name it was requested with (empty for
\* an unconstrained task).
C34_NodeNameOnMatch ==
  [][AfterAcceptStep =>
       LET task == sched.requested_tasks[sched.j]
           name == OfferAttribute(sched.offers[sched.i], "machine-name")
       IN  IF task.node_type # "" \/ task.node_function # ""
             THEN /\ \A t \in task_list' : t.name = task.name => t.node_name = name
                  /\ \A t \in task_list :
                       IF t.name = task.name
                         THEN [t EXCEPT !.node_name = name] \in task_list'
                         ELSE t \in task_list'
             ELSE task_list' = task_list]_vars

\* dns-sl2, requested for any node of type slave, was matched and holds the
\* machine-name of the offer
C34_NamedAfterMatch ==
  /\ pc["sched"] = "w_nodename"
  /\ sched.requested_tasks[sched.j].name = "dns-sl2"
  /\ sched.requested_tasks[sched.j].node_name = ""
  /\ Has(task_list, "dns-sl2")
  /\ Entry(task_list, "dns-sl2").node_name # ""
  /\ Entry(task_list, "dns-sl2").state = "Accepted"

\* the unconstrained dns-sl1 was launched and holds no node name
C34_UnconstrainedKept ==
  /\ \E k \in 1..Len(calls) :
       calls[k].op = "launch" /\ \E l \in 1..Len(calls[k].tasks) :
                                    calls[k].tasks[l].name = "dns-sl1"
  /\ Has(task_list, "dns-sl1")
  /\ Entry(task_list, "dns-sl1").node_name = ""
  /\ Entry(task_list, "dns-sl1").state = "Accepted"

\* how often the offer id stands in the list
Listed(ids, id) == Cardinality({k \in 1..Len(ids) : ids[k] = id})

\* C35: in an offers batch every offer that went through the matching loop
\* stands exactly once in exactly one of the accept list and the decline
\* list; the launch holds one task per accepted offer id, in the same
\* order; and the task launched on an offer is a Requested task of the
\* snapshot that passed the placement filters for it.
C35_AcceptOrDecline ==
  InOffers =>
    /\ \A i \in 1..Len(sched.offers) :
         Processed(i) =>
           Listed(sched.offers_to_accept, sched.offers[i].id)
             + Listed(sched.offers_to_decline, sched.offers[i].id) = 1
    /\ Len(sched.tasks_to_start) = Len(sched.offers_to_accept)
    /\ \A k \in 1..Len(sched.tasks_to_start) :
         /\ sched.tasks_to_start[k].offer = sched.offers_to_accept[k]
         /\ \E t \in Range(sched.requested_tasks), i \in 1..Len(sched.offers) :
              /\ t.name = sched.tasks_to_start[k].name
              /\ t.state = "Requested"
              /\ sched.offers[i].id = sched.offers_to_accept[k]
              /\ Fits(t, sched.offers[i])
    /\ \A k \in 1..Len(calls) :
         /\ calls[k].op = "launch" =>
              calls[k].tasks = sched.tasks_to_start
                /\ calls[k].offer_ids = sched.offers_to_accept
         /\ calls[k].op = "decline" => calls[k].offer_ids = sched.offers_to_decline

\* a batch of two offers ended with the second accepted and the first declined
C35_DeclinedThenAccepted ==
  /\ InOffers
  /\ Len(sched.offers) = 2
  /\ Len(calls) = 2
  /\ sched.offers_to_decline = <<sched.offers[1].id>>
  /\ sched.offers_to_accept = <<sched.offers[2].id>>

\* C36: within one offers batch no task name stands more than once in the
\* launch: a task matched to an earlier offer of the batch is not matched
\* again to a later one.
C36_LaunchedOnce ==
  InOffers =>
    \A k, l \in 1..Len(sched.tasks_to_start) :
      sched.tasks_to_start[k].name = sched.tasks_to_start[l].name => k = l

\* two offers of a batch were accepted
C36_TwoAccepted ==
  /\ InOffers
  /\ Len(sched.offers_to_accept) = 2
  /\ Len(sched.tasks_to_start) = 2

\* the callback is at offer number sched.i of its batch
AtOffer == InOffers /\ sched.i \in 1..Len(sched.offers) /\ pc["sched"] # "panicked"

\* C37: what the callback matches an offer by are that offer's own
\* attributes and resources: an attribute the offer lacks is empty and a
\* resource it lacks is zero, whatever an earlier offer of the batch carried.
C37_OwnValues ==
  AtOffer =>
    LET offer == sched.offers[sched.i]
    IN  /\ sched.attribute_node_name = OfferAttribute(offer, "machine-name")
        /\ sched.attribute_node_type = OfferAttribute(offer, "machine-type")
        /\ sched.attribute_node_function = OfferAttribute(offer, "machine-function")
        /\ sched.offer_cpus = OfferResource(offer, "cpus")
        /\ sched.offer_mem = OfferResource(offer, "mem")

\* the callback is at a second offer that lists no cpus, after a first
\* offer that did
C37_SecondOfferLacksCpus ==
  /\ AtOffer
  /\ sched.i = 2
  /\ OfferResource(sched.offers[1], "cpus") > 0
  /\ \A k \in 1..Len(sched.offers[2].resources) : sched.offers[2].resources[k].name # "cpus"

NodeNames(nl) == {n.name : n \in nl}

\* C38: once the configuration is loaded the node table holds the
\* configured names and no step changes that set; the activation of an
\* offer named after no configured node changes nothing in the node table,
\* and such a name is never active.
C38_FixedNodeNames ==
  [][/\ pc["main"] = "join" =>
          /\ NodeNames(node_list) = ConfiguredNames
          /\ NodeNames(node_list') = NodeNames(node_list)
     /\ \A n \in {"n9"} :
          /\ ~is_node_active(node_list', n)
          /\ OfferedStep(n) => node_list' = node_list]_vars

\* a task was launched on an offer of n9, which is no configured node and
\* is not active
C38_LaunchedOnUnknownNode ==
  /\ InOffers
  /\ OfferAttribute(sched.offers[1], "machine-name") = "n9"
  /\ "n9" \notin NodeNames(node_list)
  /\ ~is_node_active(node_list, "n9")
  /\ \E k \in 1..Len(calls) : calls[k].op = "launch" /\ calls[k].ok

\* C39: the type, function and slave id of an active node are never changed
\* again: every step keeps the record of an active node, and the activation
\* step of an offer named after an active node changes nothing in the node
\* table, whatever slave id and attributes the offer carries.
C39_ActiveNodeFrozen ==
  [][\A n \in ConfiguredNames :
       is_node_active(node_list, n) =>
         /\ Has(node_list', n)
         /\ Entry(node_list', n).node_type = Entry(node_list, n).node_type
         /\ Entry(node_list', n).node_function = Entry(node_list, n).node_function
         /\ Entry(node_list', n).slave_id = Entry(node_list, n).slave_id
         /\ OfferedStep(n) => node_list' = node_list]_vars

C39_ReofferedUnderOtherSlave ==
  /\ InOffers
  /\ sched.offers[1].slave_id = "S4"
  /\ OfferAttribute(sched.offers[1], "machine-type") = "master"
  /\ pc["sched"] \notin {"w_active", "w_updnode", "panicked"}
  /\ is_node_active(node_list, "n1")
  /\ Entry(node_list, "n1").slave_id = "S1"
  /\ Entry(node_list, "n1").node_type = "slave"

\* the three update requests that name a task
TaskUpdates == {"UpdateTaskState", "UpdateTaskNodeName", "UpdateTaskInfo"}

\* the actor serves an update request for a name the task table does not hold
AbsentUpdateStep ==
  /\ \E op \in TaskUpdates : ServesOp(op)
  /\ ~Has(task_list, Head(inbox).task_name)

\* C40: only StartTask adds a name to the task table; an update of the state,
\* the node name or the info of a name not in the table is acknowledged to
\* its sender and changes neither the task table nor the registry pushes.
C40_OnlyStartTaskAdds ==
  [][/\ ~(Names(task_list') \subseteq Names(task_list)) => ServesOp("StartTask")
     /\ AbsentUpdateStep =>
           /\ task_list' = task_list
           /\ pushes' = pushes
           /\ chan'[Head(inbox).sender] =
                 Append(chan[Head(inbox).sender], [type |-> Head(inbox).op])]_vars

\* a Running update is about to be served for a name that was started and
\* removed again
C40_RunningAfterRemoval ==
  /\ actor = "serving"
  /\ inbox # <<>>
  /\ Head(inbox).op = "UpdateTaskState"
  /\ Head(inbox).task_state = "Running"
  /\ ~Has(task_list, Head(inbox).task_name)
  /\ seen[Head(inbox).task_name].trail = "SX"
  /\ pushes[Head(inbox).task_name] = 0

====
